---- MODULE Spec2Model ----
(***************************************************************************)
(* EstimImmo AI: the multi-source fusion pipeline.                         *)
(*                                                                         *)
(*   - the three source aggregators (CadastreService.get_parcelle,         *)
(*     DVFService.get_stats, DPEService.get_dpe) as step machines over     *)
(*     the outcomes of their external provider calls;                      *)
(*   - the vision analyzer and the multi-photo fusion;                     *)
(*   - the estimation engine;                                              *)
(*   - the two request handlers of main.py.                                *)
(*                                                                         *)
(* Conventions.  A Python Optional is a sequence: << >> is None and <<v>>  *)
(* is the value v.  Decimal quantities are scaled integers; the scale is   *)
(* part of the name (lat100 = latitude * 100, coef1000 = coefficient *     *)
(* 1000, conf100 = confidence * 100).  Timestamp fields (date_requete,       *)
(* date_analyse, date_estimation) are left out of every record.  A source  *)
(* tag is the sequence of its words, so that str.startswith is a           *)
(* comparison of the first word.                                           *)
(***************************************************************************)
EXTENDS Integers, Sequences, FiniteSets, TLC

VARIABLES
    fetch,      \* the aggregator call in progress (one fetch of one service)
    vis,        \* the VisionAnalyzer object and the assessment it last produced
    eng,        \* the EstimationEngine call in progress: inputs and result
    req         \* the HTTP request in progress in main.py

vars == <<fetch, vis, eng, req>>

-----------------------------------------------------------------------------
(* Bounds of the model *)

MaxFeatures == 2     \* features in one answer of the building lookup
MaxResults == 2      \* results in one answer of the energy registry
MaxTx == 2           \* transactions in one answer of the transaction search
Today == 1000        \* the day of the request, in days since an arbitrary origin
SqrtCap == 20000     \* the largest square root ISqrt looks for
MaxPhotos == 2       \* photos analysed by one analyzer before the fusion
MaxImages == 2       \* images of one multi-photo request (besides the oversized one)
MaxAssessments == 3  \* assessments of a list handed to merge_analyses on its own
MaxCalls == 3        \* calls of calculate on one engine

\* datetime.min, before every day of the model
DateMin == 0

\* min(estimated, 10) of _estimate_floors
FloorCap == 10

\* len(request.images_base64) > 10 of estimate_multi_photos
ImagesLimit == 10

\* program constants of dvf.py
Months == 12         \* lookback window of get_stats, in months
Radius == 500        \* search radius of get_stats, in metres
KeepLast == 20       \* transactions[:20]
DetailMax == 10      \* transactions_detail[:10]
MinSurface == 10     \* surface > 10
PrixM2Min == 500     \* 500 <= prix_m2
PrixM2Max == 20000   \* prix_m2 <= 20000

\* metres per storey assumed by _enrich_with_batiments
StoreyHeight == 3

-----------------------------------------------------------------------------
(* Python values *)

None == << >>
Some(x) == <<x>>
IsNone(o) == o = << >>
Val(o) == o[1]

\* bool(x) of an Optional number: None and 0 are falsy
TruthyNum(o) == o # << >> /\ o[1] # 0

Max2(a, b) == IF a >= b THEN a ELSE b
Min2(a, b) == IF a <= b THEN a ELSE b

RECURSIVE SeqSum(_)
SeqSum(s) == IF s = << >> THEN 0 ELSE s[1] + SeqSum(Tail(s))

RECURSIVE SeqMax(_)
SeqMax(s) == IF Len(s) = 1 THEN s[1] ELSE Max2(s[1], SeqMax(Tail(s)))

RECURSIVE SeqMin(_)
SeqMin(s) == IF Len(s) = 1 THEN s[1] ELSE Min2(s[1], SeqMin(Tail(s)))

\* s[:n]
Prefix(s, n) == SubSeq(s, 1, Min2(n, Len(s)))

\* all sequences over S of length lo..hi
\* a list of n images, all alike
Repeat(x, n) == [i \in 1..n |-> x]

SeqsOf(S, lo, hi) == UNION {[1..n -> S] : n \in lo..hi}

-----------------------------------------------------------------------------
(* The external providers.  One HTTP call answers with one outcome:        *)
(*   timeout    httpx.TimeoutException                                     *)
(*   network    any other transport exception                              *)
(*   non200     a response whose status is not 200                         *)
(*   malformed  status 200 and a payload of another shape than expected    *)
(*   empty      status 200 and an empty result set                         *)
(*   ok         status 200 and a non-empty result set, in body             *)

FailKinds == {"timeout", "network", "non200", "malformed", "empty"}

NoBody == [none |-> TRUE]

Failure(k) == [kind |-> k, body |-> NoBody]
Ok(b) == [kind |-> "ok", body |-> b]

Failures == {Failure(k) : k \in FailKinds}

\* what `await client.get(...)` followed by the status test makes of an
\* outcome: the exception raised, if any
Raises(resp) ==
    CASE resp.kind = "timeout" -> Some("timeout")
      [] resp.kind \in {"network", "unmade"} -> Some("network")
      [] OTHER -> None

\* the URL a call of the aggregators is sent to: _fetch_etalab and
\* _get_commune_stats both go through _get_commune_code, and
\* _search_dpe_by_address and _get_postal_code_average both query
\* ADEME_API_URL
EndpointOf(call) ==
    CASE call = "apicarto" -> "apicarto.ign.fr/api/cadastre/parcelle"
      [] call = "gpu" -> "apicarto.ign.fr/api/gpu/document"
      [] call = "cquest" -> "api.cquest.org/dvf"
      [] call \in {"geo_etalab", "geo_commune"} -> "geo.api.gouv.fr/communes"
      [] call = "geocode" -> "api-adresse.data.gouv.fr/reverse"
      [] call \in {"search", "postal"} -> "data.ademe.fr/dpe-v2-logements-existants/lines"

\* the outcome slot of a call that the fetch has not issued (yet)
Unmade == Failure("unmade")

\* the log of one fetch: the tiers entered and the network calls issued
Tier(n) == [k |-> "tier", n |-> n]
Call(n) == [k |-> "call", n |-> n]

\* the value a fetch hands back: raised is an exception escaping to the caller
Returned(v) == [raised |-> FALSE, value |-> v]
Escaped == [raised |-> TRUE, value |-> None]
NotReturned == [raised |-> FALSE, value |-> None]

\* GPS coordinates, * 100: one point per box of _estimate_default_price, one
\* outside metropolitan France, two outside the legal ranges
Locations ==
    { [lat100 |-> 4885, lon100 |-> 235],    \* Paris
      [lat100 |-> 4900, lon100 |-> 200],    \* grande couronne
      [lat100 |-> 4575, lon100 |-> 485],    \* Lyon
      [lat100 |-> 4330, lon100 |-> 540],    \* Marseille
      [lat100 |-> 4485, lon100 |-> -55],    \* Bordeaux
      [lat100 |-> 4370, lon100 |-> 700],    \* Cote d'Azur
      [lat100 |-> 4700, lon100 |-> 0],      \* another town
      [lat100 |-> 4200, lon100 |-> 900],    \* rural
      [lat100 |-> 9100, lon100 |-> 0],      \* latitude out of range
      [lat100 |-> 0, lon100 |-> 18100] }    \* longitude out of range

-----------------------------------------------------------------------------
(* CadastreService (src/backend/services/cadastre.py) *)

SrcApicarto == <<"APICarto", "IGN">>
SrcFallback == <<"fallback">>

\* a fallback record that keeps the label of the primary source
GetFallbackData_Mislabelled(loc) ==
    [ numero_parcelle |-> None,
      surface_terrain |-> Some(0),
      surface_batie |-> None,
      annee_construction |-> None,
      has_geometry |-> FALSE,
      nombre_etages_cadastre |-> None,
      source |-> SrcApicarto,
      avertissement |-> TRUE ]

\* _get_fallback_data: the tier-3 record, built from constants only
GetFallbackData(loc) ==
    [ numero_parcelle |-> None,
      surface_terrain |-> Some(0),
      surface_batie |-> None,
      annee_construction |-> None,
      has_geometry |-> FALSE,
      nombre_etages_cadastre |-> None,
      source |-> SrcFallback,
      avertissement |-> TRUE ]

\* props.get("contenance", 0): the default 0 stands for a missing key, a key
\* holding null gives None
GetContenance(c) == IF c.present THEN c.val ELSE Some(0)

\* the record get_parcelle builds from features[0] (lines 72-87)
BuildParcelle(feature) ==
    [ numero_parcelle |-> feature.numero,
      surface_terrain |-> GetContenance(feature.contenance),
      surface_batie |-> None,
      annee_construction |-> None,
      has_geometry |-> feature.geometry,
      nombre_etages_cadastre |-> None,
      source |-> SrcApicarto,
      avertissement |-> FALSE ]

\* the loop of _enrich_with_batiments over the features of the answer: each
\* feature with a truthy hauteur overwrites nombre_etages_cadastre with
\* max(1, int(hauteur / 3)); float() of a non-numeric hauteur raises, and the
\* record keeps what the loop wrote so far
RECURSIVE EnrichLoop(_, _)
EnrichLoop(rec, feats) ==
    IF feats = << >> THEN rec
    ELSE LET f == feats[1] IN
         IF ~TruthyNum(f.hauteur) THEN EnrichLoop(rec, Tail(feats))
         ELSE IF ~f.numeric THEN rec
         ELSE EnrichLoop(
                [rec EXCEPT !.nombre_etages_cadastre =
                                Some(Max2(1, Val(f.hauteur) \div StoreyHeight))],
                Tail(feats))

\* a handler that lets the timeout through
EnrichCatches_NoTimeout(exc) == exc \in {"network", "decode"}

\* the except clause of _enrich_with_batiments (lines 130-132)
EnrichCatches(exc) == exc \in {"timeout", "network", "decode"}

\* _enrich_with_batiments: the building lookup; every failure of the call
\* leaves the record as it is.  Gives [exc, val].
EnrichWithBatiments(rec, resp) ==
    LET exc == CASE Raises(resp) # None -> Raises(resp)
                 [] resp.kind = "malformed" -> Some("decode")
                 [] OTHER -> None
    IN  CASE exc # None /\ ~EnrichCatches(Val(exc)) -> [exc |-> exc, val |-> rec]
          [] resp.kind = "ok" -> [exc |-> None, val |-> EnrichLoop(rec, resp.body)]
          [] OTHER -> [exc |-> None, val |-> rec]

\* get_parcelle with its first except clause only
GetParcelleCatches_TimeoutOnly(exc) == exc = "timeout"

\* the except clauses of get_parcelle (lines 94-99): httpx.TimeoutException
\* and Exception both end in _get_fallback_data
GetParcelleCatches(exc) == exc \in {"timeout", "network", "decode"}

\* lines 37-87 of get_parcelle: the APICarto query and the record built from
\* its first feature.  Gives [exc, goto, rec].
QueryApicarto(resp) ==
    CASE Raises(resp) # None ->
            [exc |-> Raises(resp), fallback |-> FALSE, rec |-> None]
      [] resp.kind = "non200" ->
            [exc |-> None, fallback |-> TRUE, rec |-> None]
      [] resp.kind = "malformed" ->      \* response.json() or data.get raises
            [exc |-> Some("decode"), fallback |-> FALSE, rec |-> None]
      [] resp.kind = "empty" ->
            [exc |-> None, fallback |-> TRUE, rec |-> None]
      [] resp.kind = "ok" ->
            IF ~resp.body.codes_ok     \* code_dep: null, "" + None raises
            THEN [exc |-> Some("decode"), fallback |-> FALSE, rec |-> None]
            ELSE [exc |-> None, fallback |-> FALSE,
                  rec |-> Some(BuildParcelle(resp.body))]
      [] OTHER ->                        \* a call that was never answered
            [exc |-> Some("network"), fallback |-> FALSE, rec |-> None]

\* one step of get_parcelle on the fetch record s
CadastreQueryStep(s) ==
    LET q == QueryApicarto(s.env.apicarto)
        log == s.log \o <<Tier("primary"), Call("apicarto")>>
    IN  CASE q.exc # None /\ ~GetParcelleCatches(Val(q.exc)) ->
                [s EXCEPT !.pc = "done", !.log = log, !.ret = Escaped]
          [] q.exc # None \/ q.fallback ->
                [s EXCEPT !.pc = "cad_fallback", !.log = log]
          [] OTHER ->
                [s EXCEPT !.pc = "cad_enrich", !.log = log, !.rec = q.rec]

CadastreEnrichStep(s) ==
    LET rec == Val(s.rec)
        e == EnrichWithBatiments(rec, s.env.gpu)
        log == s.log \o <<Call("gpu")>>
    IN  CASE ~rec.has_geometry ->
                [s EXCEPT !.pc = "done", !.ret = Returned(Some(rec))]
          [] e.exc # None /\ ~GetParcelleCatches(Val(e.exc)) ->
                [s EXCEPT !.pc = "done", !.log = log, !.ret = Escaped]
          [] e.exc # None ->
                [s EXCEPT !.pc = "cad_fallback", !.log = log]
          [] OTHER ->
                [s EXCEPT !.pc = "done", !.log = log, !.ret = Returned(Some(e.val))]

CadastreFallbackStep(s) ==
    [s EXCEPT !.pc = "done",
              !.log = s.log \o <<Tier("default")>>,
              !.ret = Returned(Some(GetFallbackData(s.loc)))]

\* expert_fields of merge_with_manual
ExpertFields ==
    { "surface_terrain", "surface_batie", "surface_habitable", "annee_construction",
      "nombre_pieces", "nombre_etages", "type_chauffage", "etat_general",
      "travaux_recents" }

\* merge_with_manual.  manual_data is the function from its keys to their
\* values; champs_manuels holds the fields f for which the code sets
\* f_source to "manuel".
MergeWithManual(cadastre_data, manual_data) ==
    LET manuel == {f \in ExpertFields \cap DOMAIN manual_data : manual_data[f] # None}
    IN  [f \in DOMAIN cadastre_data \cup manuel \cup {"mode_expert", "champs_manuels"} |->
            CASE f \in manuel -> manual_data[f]
              [] f = "mode_expert" -> TRUE
              [] f = "champs_manuels" -> manuel
              [] OTHER -> cadastre_data[f]]

\* A Python dict is an object: heap is the sequence of the dicts allocated
\* so far and a reference is an index of heap.  dict.copy() allocates a new
\* dict with the same items.
DictCopy(heap, ref) == [heap |-> Append(heap, heap[ref]), ret |-> Len(heap) + 1]

\* merge_with_manual on references: what it leaves in the heap and the
\* reference it returns
MergeWithManualAt_NoCopy(heap, cadastre_data, manual_data) ==
    [ heap |-> [heap EXCEPT ![cadastre_data] =
                   MergeWithManual(heap[cadastre_data], manual_data)],
      ret |-> cadastre_data ]

MergeWithManualAt(heap, cadastre_data, manual_data) ==
    LET merged == DictCopy(heap, cadastre_data)
    IN  [ heap |-> [merged.heap EXCEPT ![merged.ret] =
                       MergeWithManual(merged.heap[merged.ret], manual_data)],
          ret |-> merged.ret ]

\* what the providers of the parcel lookup may answer
ApicartoBodies ==
    { [numero |-> Some("0042"), contenance |-> c, codes_ok |-> k, geometry |-> g] :
        c \in { [present |-> FALSE, val |-> None],
                [present |-> TRUE, val |-> None],
                [present |-> TRUE, val |-> Some(0)],
                [present |-> TRUE, val |-> Some(500)] },
        k \in BOOLEAN, g \in BOOLEAN }

GpuFeatures ==
    { [hauteur |-> None, numeric |-> TRUE],
      [hauteur |-> Some(2), numeric |-> TRUE],
      [hauteur |-> Some(7), numeric |-> TRUE],
      [hauteur |-> Some(7), numeric |-> FALSE] }

ApicartoOutcomes == Failures \cup {Ok(b) : b \in ApicartoBodies}
GpuOutcomes == Failures \cup {Ok(b) : b \in SeqsOf(GpuFeatures, 1, MaxFeatures)}

-----------------------------------------------------------------------------
(* DVFService (src/services/dvf.py).  Prices per m2 are held in cents.     *)

SrcDvf == <<"DVF", "Etalab">>
SrcRegional == <<"Estimation", "regionale", "(donnees DVF indisponibles)">>
SrcNational == <<"Estimation", "nationale", "moyenne">>

\* round(n / d) for d > 0, as Python rounds: to the nearest, ties to even
RoundDiv(n, d) ==
    LET q == n \div d
        r == n % d
    IN  IF 2 * r < d THEN q
        ELSE IF 2 * r > d THEN q + 1
        ELSE IF q % 2 = 0 THEN q ELSE q + 1

\* the integer square root, by bisection on lo..hi
RECURSIVE SqrtIn(_, _, _)
SqrtIn(n, lo, hi) ==
    IF lo >= hi THEN lo
    ELSE LET mid == (lo + hi + 1) \div 2
         IN  IF mid * mid <= n THEN SqrtIn(n, mid, hi) ELSE SqrtIn(n, lo, mid - 1)

ISqrt(n) == SqrtIn(n, 0, Min2(n, SqrtCap))

\* sorted(s)
RECURSIVE Insert(_, _)
Insert(x, s) ==
    IF s = << >> THEN <<x>>
    ELSE IF x <= s[1] THEN <<x>> \o s ELSE <<s[1]>> \o Insert(x, Tail(s))

RECURSIVE Sorted(_)
Sorted(s) == IF s = << >> THEN << >> ELSE Insert(s[1], Sorted(Tail(s)))

\* statistics.mean, statistics.median, statistics.stdev of a non-empty list
\* of prices in cents, each rounded to the cent as round(x, 2) does.  The
\* standard deviation is computed on whole euros (the cents of the
\* deviations are dropped before squaring).
Mean(xs) == RoundDiv(SeqSum(xs), Len(xs))

Median(xs) ==
    LET srt == Sorted(xs)
        n == Len(xs)
    IN  IF n % 2 = 1 THEN srt[(n + 1) \div 2]
        ELSE RoundDiv(srt[n \div 2] + srt[n \div 2 + 1], 2)

StDev(xs) ==
    LET n == Len(xs)
        m == RoundDiv(SeqSum(xs), n * 100)
        sq == [i \in 1..n |-> (xs[i] \div 100 - m) * (xs[i] \div 100 - m)]
    IN  ISqrt(SeqSum(sq) \div (n - 1)) * 100

\* _parse_date: the day a date_mutation stands for.  A missing or
\* unparseable string is datetime.min; a value that is no string cannot be
\* sliced and raises TypeError.
ParseDate(d) ==
    CASE d.form \in {"iso", "fr"} -> [exc |-> None, val |-> d.day]
      [] d.form = "number" -> [exc |-> Some("decode"), val |-> DateMin]
      [] OTHER -> [exc |-> None, val |-> DateMin]

\* the test of lines 79 and 83 without the upper end of the band
Usable_NoUpperBand(t) ==
    /\ TruthyNum(t.prix)
    /\ TruthyNum(t.surface)
    /\ Val(t.surface) > MinSurface
    /\ PrixM2Min * Val(t.surface) <= Val(t.prix)

\* the test of lines 79 and 83: a price, a surface above 10 m2, and a price
\* per m2 within [500, 20000]
Usable(t) ==
    /\ TruthyNum(t.prix)
    /\ TruthyNum(t.surface)
    /\ Val(t.surface) > MinSurface
    /\ PrixM2Min * Val(t.surface) <= Val(t.prix)
    /\ Val(t.prix) <= PrixM2Max * Val(t.surface)

\* prix / surface, in cents
PrixM2(t) == RoundDiv(Val(t.prix) * 100, Val(t.surface))

Detail(t) == [date |-> t.date, prix |-> Val(t.prix), surface |-> Val(t.surface),
              prix_m2 |-> PrixM2(t)]

\* lines 61-69: the transactions of the lookback window, or the first 20 of
\* the provider's list when the window holds none
RecentTransactions(transactions, months) ==
    LET date_limite == Today - months * 30
        InWindow(t) == ParseDate(t.date).val >= date_limite
        recentes == SelectSeq(transactions, InWindow)
    IN  IF recentes = << >> THEN Prefix(transactions, KeepLast) ELSE recentes

\* lines 61-110 of get_stats on a non-empty list of transactions.
\* Gives [exc, val]: val is None when no price survives the filters.
ProcessTransactions(transactions, radius, months) ==
    LET bad == \E i \in 1..Len(transactions) :
                   ParseDate(transactions[i].date).exc # None
        kept == SelectSeq(RecentTransactions(transactions, months), Usable)
        prix_m2_list == [i \in 1..Len(kept) |-> PrixM2(kept[i])]
        detail == [i \in 1..Len(kept) |-> Detail(kept[i])]
    IN  CASE bad -> [exc |-> Some("decode"), val |-> None]
          [] prix_m2_list = << >> -> [exc |-> None, val |-> None]
          [] OTHER ->
              [exc |-> None,
               val |-> Some(
                [ prix_m2_moyen |-> Some(Mean(prix_m2_list)),
                  prix_m2_median |-> Some(Median(prix_m2_list)),
                  prix_m2_min |-> Some(SeqMin(prix_m2_list)),
                  prix_m2_max |-> Some(SeqMax(prix_m2_list)),
                  ecart_type |-> Some(IF Len(prix_m2_list) > 1
                                      THEN StDev(prix_m2_list) ELSE 0),
                  nb_transactions |-> Len(prix_m2_list),
                  periode |-> "Derniers mois",
                  rayon_recherche |-> radius,
                  transactions_detail |-> Prefix(detail, DetailMax),
                  source |-> SrcDvf,
                  avertissement |-> FALSE ])]

\* the except clause of _fetch_cquest (lines 143-145)
FetchCquestCatches(exc) == exc \in {"timeout", "network", "decode"}

\* _fetch_cquest: the transactions around the point.  Gives [exc, val].
FetchCquest(resp) ==
    LET exc == CASE Raises(resp) # None -> Raises(resp)
                 [] resp.kind = "malformed" -> Some("decode")
                 [] OTHER -> None
    IN  CASE exc # None /\ ~FetchCquestCatches(Val(exc)) -> [exc |-> exc, val |-> << >>]
          [] resp.kind = "ok" -> [exc |-> None, val |-> resp.body]
          [] OTHER -> [exc |-> None, val |-> << >>]

\* the except clause of _get_commune_code (lines 189-191)
GetCommuneCodeCatches(exc) == exc \in {"timeout", "network", "decode"}

\* _get_commune_code: the INSEE code of the commune of the point, from the
\* geo API.  Gives [exc, val].
GetCommuneCode(resp) ==
    LET exc == CASE Raises(resp) # None -> Raises(resp)
                 [] resp.kind = "malformed" -> Some("decode")
                 [] OTHER -> None
    IN  CASE exc # None /\ ~GetCommuneCodeCatches(Val(exc)) -> [exc |-> exc, val |-> None]
          [] resp.kind = "ok" -> [exc |-> None, val |-> Some(resp.body.code)]
          [] OTHER -> [exc |-> None, val |-> None]

\* the except clause of _fetch_etalab (lines 162-164)
FetchEtalabCatches(exc) == exc \in {"timeout", "network", "decode"}

\* _fetch_etalab: looks the commune up and returns no transaction, whether
\* the commune was found or not.  Gives [exc, val].
FetchEtalab(resp) ==
    LET c == GetCommuneCode(resp)
    IN  IF c.exc # None /\ ~FetchEtalabCatches(Val(c.exc))
        THEN [exc |-> c.exc, val |-> << >>]
        ELSE [exc |-> None, val |-> << >>]

\* _estimate_default_price: euros per m2 by bounding box, coordinates * 100
EstimateDefaultPrice(loc) ==
    LET lat == loc.lat100
        lon == loc.lon100
    IN  CASE 4880 <= lat /\ lat <= 4895 /\ 220 <= lon /\ lon <= 250 -> 10500
          [] 4850 <= lat /\ lat <= 4920 /\ 180 <= lon /\ lon <= 300 -> 4500
          [] 4570 <= lat /\ lat <= 4580 /\ 480 <= lon /\ lon <= 490 -> 5000
          [] 4320 <= lat /\ lat <= 4340 /\ 530 <= lon /\ lon <= 550 -> 3500
          [] 4480 <= lat /\ lat <= 4490 /\ -60 <= lon /\ lon <= -50 -> 4500
          [] 4350 <= lat /\ lat <= 4380 /\ 680 <= lon /\ lon <= 750 -> 6000
          [] 4300 <= lat /\ lat <= 5000 /\ -200 <= lon /\ lon <= 800 -> 3000
          [] OTHER -> 1800

\* _get_fallback_stats: the constant record
GetFallbackStats ==
    [ prix_m2_moyen |-> Some(300000),
      prix_m2_median |-> Some(280000),
      prix_m2_min |-> Some(150000),
      prix_m2_max |-> Some(500000),
      ecart_type |-> Some(80000),
      nb_transactions |-> 0,
      periode |-> "Estimation par defaut",
      rayon_recherche |-> 0,
      transactions_detail |-> << >>,
      source |-> SrcNational,
      avertissement |-> TRUE ]

\* a default tier that tags its record as observed
GetCommuneStats_TaggedObserved(loc, resp) ==
    [exc |-> None, val |-> Some([GetFallbackStats EXCEPT !.source = SrcDvf])]

\* the except clause of _get_commune_stats (lines 222-224)
GetCommuneStatsCatches(exc) == exc \in {"timeout", "network", "decode"}

\* _get_commune_stats: asks the geo API for the commune (the answer is not
\* used) and returns the regional default of the point.  Gives [exc, val].
GetCommuneStats(loc, resp) ==
    LET c == GetCommuneCode(resp)
        prix_defaut == EstimateDefaultPrice(loc)
    IN  CASE c.exc # None /\ ~GetCommuneStatsCatches(Val(c.exc)) ->
                [exc |-> c.exc, val |-> None]
          [] c.exc # None ->
                [exc |-> None, val |-> Some(GetFallbackStats)]
          [] OTHER ->
                [exc |-> None,
                 val |-> Some(
                  [ prix_m2_moyen |-> Some(prix_defaut * 100),
                    prix_m2_median |-> Some(prix_defaut * 95),
                    prix_m2_min |-> Some(prix_defaut * 70),
                    prix_m2_max |-> Some(prix_defaut * 130),
                    ecart_type |-> Some(prix_defaut * 15),
                    nb_transactions |-> 0,
                    periode |-> "Estimation moyenne",
                    rayon_recherche |-> 0,
                    transactions_detail |-> << >>,
                    source |-> SrcRegional,
                    avertissement |-> TRUE ])]

\* the except clause of get_stats (lines 112-114), which ends in
\* _get_commune_stats
GetStatsCatches(exc) == exc \in {"timeout", "network", "decode"}

\* get_stats asking the secondary source whatever the primary answered
DvfCquestStep_AlwaysSecondary(s) ==
    LET r == FetchCquest(s.env.cquest)
        log == s.log \o <<Tier("primary"), Call("cquest")>>
    IN  [s EXCEPT !.pc = "dvf_etalab", !.log = log]

\* line 51 of get_stats: the primary query
DvfCquestStep(s) ==
    LET r == FetchCquest(s.env.cquest)
        log == s.log \o <<Tier("primary"), Call("cquest")>>
    IN  CASE r.exc # None /\ ~GetStatsCatches(Val(r.exc)) ->
                [s EXCEPT !.pc = "done", !.log = log, !.ret = Escaped]
          [] r.exc # None ->
                [s EXCEPT !.pc = "dvf_commune", !.log = log]
          [] r.val = << >> ->
                [s EXCEPT !.pc = "dvf_etalab", !.log = log]
          [] OTHER ->
                [s EXCEPT !.pc = "dvf_process", !.log = log, !.tx = r.val]

\* a secondary query that sends get_stats back to the primary one
DvfEtalabStep_RetriesPrimary(s) ==
    [s EXCEPT !.pc = "dvf_cquest",
              !.log = s.log \o <<Tier("secondary"), Call("geo_etalab")>>]

\* lines 53-59: the secondary query, then the choice between the default
\* tier and the statistics
DvfEtalabStep(s) ==
    LET r == FetchEtalab(s.env.geo_etalab)
        log == s.log \o <<Tier("secondary"), Call("geo_etalab")>>
    IN  CASE r.exc # None /\ ~GetStatsCatches(Val(r.exc)) ->
                [s EXCEPT !.pc = "done", !.log = log, !.ret = Escaped]
          [] r.exc # None \/ r.val = << >> ->
                [s EXCEPT !.pc = "dvf_commune", !.log = log]
          [] OTHER ->
                [s EXCEPT !.pc = "dvf_process", !.log = log, !.tx = r.val]

\* lines 61-110: the statistics of the transactions found
DvfProcessStep(s) ==
    LET r == ProcessTransactions(s.tx, s.radius, s.months)
    IN  CASE r.exc # None /\ ~GetStatsCatches(Val(r.exc)) ->
                [s EXCEPT !.pc = "done", !.ret = Escaped]
          [] r.exc # None \/ r.val = None ->
                [s EXCEPT !.pc = "dvf_commune"]
          [] OTHER ->
                [s EXCEPT !.pc = "done", !.ret = Returned(r.val)]

\* lines 59, 95 and 114: return await self._get_commune_stats(lat, lon)
DvfCommuneStep(s) ==
    LET r == GetCommuneStats(s.loc, s.env.geo_commune)
        log == s.log \o <<Tier("default"), Call("geo_commune")>>
    IN  IF r.exc # None
        THEN [s EXCEPT !.pc = "done", !.log = log, !.ret = Escaped]
        ELSE [s EXCEPT !.pc = "done", !.log = log, !.ret = Returned(r.val)]

\* what the providers of the market statistics may answer
Dates_iso == [form |-> "iso", day |-> Today - 5]        \* inside the window
Dates_old == [form |-> "fr", day |-> Today - 700]       \* outside the window
Dates_num == [form |-> "number", day |-> 0]             \* a number, no string

TxShapes ==
    { [date |-> Dates_iso, prix |-> Some(100000), surface |-> Some(50)],
      [date |-> Dates_iso, prix |-> Some(300000), surface |-> Some(100)],
      [date |-> Dates_old, prix |-> Some(120000), surface |-> Some(40)],
      [date |-> Dates_iso, prix |-> Some(10000), surface |-> Some(50)],
      [date |-> Dates_iso, prix |-> None, surface |-> Some(50)],
      [date |-> Dates_iso, prix |-> Some(25000), surface |-> Some(50)],
      [date |-> Dates_iso, prix |-> Some(1050000), surface |-> Some(50)],
      [date |-> Dates_iso, prix |-> Some(30000), surface |-> Some(10)],
      [date |-> Dates_num, prix |-> Some(100000), surface |-> Some(50)] }

\* more transactions than transactions[:20] keeps, all before the window:
\* twenty of one day and one of a later day, last or first in the list
Dates_stale == [form |-> "iso", day |-> Today - 400]

TxOld == [date |-> Dates_old, prix |-> Some(120000), surface |-> Some(40)]
TxStale == [date |-> Dates_stale, prix |-> Some(100000), surface |-> Some(50)]

LongLists ==
    { Repeat(TxOld, KeepLast) \o <<TxStale>>, <<TxStale>> \o Repeat(TxOld, KeepLast) }

CquestOutcomes ==
    Failures \cup {Ok(b) : b \in SeqsOf(TxShapes, 1, MaxTx) \cup LongLists}
GeoOutcomes == Failures \cup {Ok([code |-> "75056"])}

-----------------------------------------------------------------------------
(* DPEService (src/services/dpe.py) *)

SrcAdeme == <<"ADEME", "DPE">>
SrcMoyenne == <<"Moyenne", "DPE", "CP">>

\* the except clause of _reverse_geocode (lines 86-88)
ReverseGeocodeCatches(exc) == exc \in {"timeout", "network", "decode"}

\* _reverse_geocode: the address of the point.  Gives [exc, val].
ReverseGeocode(resp) ==
    LET exc == CASE Raises(resp) # None -> Raises(resp)
                 [] resp.kind = "malformed" -> Some("decode")
                 [] OTHER -> None
    IN  CASE exc # None /\ ~ReverseGeocodeCatches(Val(exc)) -> [exc |-> exc, val |-> None]
          [] resp.kind = "ok" -> [exc |-> None, val |-> Some(resp.body)]
          [] OTHER -> [exc |-> None, val |-> None]

\* max(results, key=date): the first result bearing the latest date
Latest(results) ==
    LET top == SeqMax([i \in 1..Len(results) |-> results[i].date])
        i == CHOOSE j \in 1..Len(results) :
                /\ results[j].date = top
                /\ \A k \in 1..(j - 1) : results[k].date # top
    IN  results[i]

\* the except clause of _search_dpe_by_address (lines 124-126)
SearchDpeCatches(exc) == exc \in {"timeout", "network", "decode"}

\* _search_dpe_by_address: the latest DPE of the postal code.  Gives [exc, val].
SearchDpeByAddress(address_info, resp) ==
    LET exc == CASE Raises(resp) # None -> Raises(resp)
                 [] resp.kind = "malformed" -> Some("decode")
                 [] OTHER -> None
    IN  CASE exc # None /\ ~SearchDpeCatches(Val(exc)) -> [exc |-> exc, val |-> None]
          [] resp.kind = "ok" -> [exc |-> None, val |-> Some(Latest(resp.body))]
          [] OTHER -> [exc |-> None, val |-> None]

\* _format_dpe_response
FormatDpeResponse(dpe_data) ==
    [ classe_energie |-> dpe_data.classe,
      is_average |-> FALSE,
      source |-> SrcAdeme ]

\* max(set(classes), key=classes.count): the first class, in the iteration
\* order of the set, that no other class outnumbers
Count(classes, c) == Cardinality({i \in 1..Len(classes) : classes[i] = c})

MostFrequent(classes, order) ==
    LET present == SelectSeq(order, LAMBDA c : Count(classes, c) > 0)
        best == SeqMax([i \in 1..Len(present) |-> Count(classes, present[i])])
        i == CHOOSE j \in 1..Len(present) :
                /\ Count(classes, present[j]) = best
                /\ \A k \in 1..(j - 1) : Count(classes, present[k]) # best
    IN  present[i]

\* the except clause of _get_postal_code_average (lines 175-177)
PostalAverageCatches(exc) == exc \in {"timeout", "network", "decode"}

\* _get_postal_code_average: the most frequent class of the postal code.
\* Gives [exc, val, called]: without a postal code no call is issued.
GetPostalCodeAverage(postcode, resp) ==
    LET exc == CASE Raises(resp) # None -> Raises(resp)
                 [] resp.kind = "malformed" -> Some("decode")
                 [] OTHER -> None
        known == SelectSeq(resp.body.results, LAMBDA c : c # None)
    IN  CASE postcode = None -> [exc |-> None, val |-> None, called |-> FALSE]
          [] exc # None /\ ~PostalAverageCatches(Val(exc)) ->
                [exc |-> exc, val |-> None, called |-> TRUE]
          [] resp.kind = "ok" ->
                [exc |-> None, called |-> TRUE,
                 val |-> Some(
                    [ classe_energie |->
                        IF known = << >> THEN Some("D")
                        ELSE Some(MostFrequent(
                                [i \in 1..Len(known) |-> Val(known[i])],
                                resp.body.order)),
                      is_average |-> TRUE,
                      source |-> SrcMoyenne ])]
          [] OTHER -> [exc |-> None, val |-> None, called |-> TRUE]

\* the except clause of get_dpe (lines 55-57), which returns None
GetDpeCatches(exc) == exc \in {"timeout", "network", "decode"}

\* lines 41-44 of get_dpe: the address of the point
DpeGeocodeStep(s) ==
    LET r == ReverseGeocode(s.env.geocode)
        log == s.log \o <<Tier("primary"), Call("geocode")>>
    IN  CASE r.exc # None /\ ~GetDpeCatches(Val(r.exc)) ->
                [s EXCEPT !.pc = "done", !.log = log, !.ret = Escaped]
          [] r.exc # None \/ r.val = None ->
                [s EXCEPT !.pc = "done", !.log = log \o <<Tier("default")>>,
                          !.ret = Returned(None)]
          [] OTHER ->
                [s EXCEPT !.pc = "dpe_search", !.log = log, !.address = r.val]

\* lines 47-50: the DPE of the address
DpeSearchStep(s) ==
    LET r == SearchDpeByAddress(Val(s.address), s.env.search)
        log == s.log \o <<Call("search")>>
    IN  CASE r.exc # None /\ ~GetDpeCatches(Val(r.exc)) ->
                [s EXCEPT !.pc = "done", !.log = log, !.ret = Escaped]
          [] r.exc # None ->
                [s EXCEPT !.pc = "done", !.log = log \o <<Tier("default")>>,
                          !.ret = Returned(None)]
          [] r.val # None ->
                [s EXCEPT !.pc = "done", !.log = log,
                          !.ret = Returned(Some(FormatDpeResponse(Val(r.val))))]
          [] OTHER ->
                [s EXCEPT !.pc = "dpe_postal", !.log = log]

\* line 53: the average of the postal code, or None
DpePostalStep(s) ==
    LET r == GetPostalCodeAverage(Val(s.address).postcode, s.env.postal)
        log == s.log \o <<Tier("secondary")>>
                     \o (IF r.called THEN <<Call("postal")>> ELSE << >>)
    IN  CASE r.exc # None /\ ~GetDpeCatches(Val(r.exc)) ->
                [s EXCEPT !.pc = "done", !.log = log, !.ret = Escaped]
          [] r.exc # None \/ r.val = None ->
                [s EXCEPT !.pc = "done", !.log = log \o <<Tier("default")>>,
                          !.ret = Returned(None)]
          [] OTHER ->
                [s EXCEPT !.pc = "done", !.log = log, !.ret = Returned(r.val)]

\* what the providers of the energy lookup may answer
GeocodeOutcomes ==
    Failures \cup {Ok([postcode |-> p]) : p \in {None, Some("75001")}}

DpeResults ==
    { [date |-> d, classe |-> c] : d \in 1..2, c \in {None, Some("D"), Some("G")} }

SearchOutcomes == Failures \cup {Ok(b) : b \in SeqsOf(DpeResults, 1, MaxResults)}

PostalOutcomes ==
    Failures \cup
    { Ok([results |-> r, order |-> o]) :
        r \in SeqsOf({None, Some("D"), Some("G")}, 1, MaxResults),
        o \in {<<"D", "G">>, <<"G", "D">>} }

-----------------------------------------------------------------------------
(* VisionAnalyzer (src/backend/services/vision.py).  Confidences are held  *)
(* * 100, condition coefficients * 1000.  An image is the record of what   *)
(* PIL and numpy measure on it: whether it opens, whether its pixels load, *)
(* its size, its dominant colour, the variance of its pixels, its texture  *)
(* score and the rows of its horizontal lines.                             *)

PropertyTypes ==
    {"maison", "appartement", "immeuble", "terrain", "local_commercial", "inconnu"}

\* STATES, in the order of the dict
StateKeys ==
    <<"neuf", "tres_bon", "bon", "correct", "travaux_legers", "renovation",
      "gros_travaux">>

StateCoef(etat) ==
    CASE etat = "neuf" -> 1150
      [] etat = "tres_bon" -> 1100
      [] etat = "bon" -> 1000
      [] etat = "correct" -> 950
      [] etat = "travaux_legers" -> 850
      [] etat = "renovation" -> 700
      [] etat = "gros_travaux" -> 550

StateLabel(etat) ==
    CASE etat = "neuf" -> "Neuf / Recent"
      [] etat = "tres_bon" -> "Tres bon etat"
      [] etat = "bon" -> "Bon etat"
      [] etat = "correct" -> "Etat correct"
      [] etat = "travaux_legers" -> "Travaux legers a prevoir"
      [] etat = "renovation" -> "Renovation necessaire"
      [] etat = "gros_travaux" -> "Gros travaux"

\* a fallback assessment that carries the table coefficient of its class
GetFallbackAnalysis_TableCoefficient ==
    [ type_bien |-> "inconnu",
      etat_exterieur |-> "correct",
      etat_label |-> "Etat standard (non determine)",
      coefficient_etat |-> StateCoef("correct"),
      nombre_etages_estime |-> 1,
      surface_estimee_vision |-> None,
      score_confiance |-> 3000,
      methode |-> "fallback",
      nombre_photos_analysees |-> None,
      analyses_individuelles |-> << >> ]

\* _get_fallback_analysis
GetFallbackAnalysis ==
    [ type_bien |-> "inconnu",
      etat_exterieur |-> "correct",
      etat_label |-> "Etat standard (non determine)",
      coefficient_etat |-> 1000,
      nombre_etages_estime |-> 1,
      surface_estimee_vision |-> None,
      score_confiance |-> 3000,
      methode |-> "fallback",
      nombre_photos_analysees |-> None,
      analyses_individuelles |-> << >> ]

\* _guess_property_type
GuessPropertyType(img) ==
    LET has_vegetation == img.color = "vegetation"
        many_lines == Len(img.lines) > 15
        is_tall == img.width * 10 < img.height * 8        \* aspect_ratio < 0.8
        is_wide == img.width * 10 > img.height * 15       \* aspect_ratio > 1.5
    IN  CASE many_lines /\ is_tall -> "immeuble"
          [] has_vegetation /\ is_wide -> "maison"
          [] ~many_lines /\ ~has_vegetation ->
                IF img.variance < 500 THEN "terrain" ELSE "maison"
          [] OTHER -> "maison"

\* _guess_state
GuessState(img) ==
    LET has_light == img.color = "blanc/clair"
    IN  CASE has_light /\ img.texture < 15 /\ img.variance < 2000 -> "neuf"
          [] has_light /\ img.texture < 25 -> "tres_bon"
          [] img.texture < 35 -> "bon"
          [] img.texture < 50 -> "correct"
          [] img.texture < 70 -> "travaux_legers"
          [] OTHER -> "renovation"

\* the loop of _estimate_floors: keeps a line when it lies more than a tenth
\* of the height below the line kept last
RECURSIVE FilterLines(_, _, _)
FilterLines(lines, kept, height) ==
    IF lines = << >> THEN kept
    ELSE IF kept = << >> \/ (lines[1] - kept[Len(kept)]) * 10 > height
         THEN FilterLines(Tail(lines), Append(kept, lines[1]), height)
         ELSE FilterLines(Tail(lines), kept, height)

\* _estimate_floors
EstimateFloors(img) ==
    IF img.lines = << >> THEN 1
    ELSE Min2(Max2(1, Len(FilterLines(Sorted(img.lines), << >>, img.height)) \div 3),
              FloorCap)

\* _calculate_confidence of the analyzer, * 100
VisionConfidence(img) ==
    LET min_dim == Min2(img.width, img.height)
        c0 == 5000
        c1 == CASE min_dim >= 1000 -> c0 + 1500
                [] min_dim >= 500 -> c0 + 1000
                [] min_dim < 200 -> c0 - 2000
                [] OTHER -> c0
        c2 == IF 500 < img.variance /\ img.variance < 5000 THEN c1 + 1000 ELSE c1
        c3 == IF 10 < img.texture /\ img.texture < 60 THEN c2 + 1000 ELSE c2
    IN  Min2(9500, Max2(2000, c3))

\* _analyze_heuristic.  Gives [exc, val]: the pixels of a truncated file
\* cannot be loaded, and np.array raises.
AnalyzeHeuristic(img) ==
    IF img.kind = "truncated"
    THEN [exc |-> Some("decode"), val |-> GetFallbackAnalysis]
    ELSE [exc |-> None,
          val |-> [ type_bien |-> GuessPropertyType(img),
                    etat_exterieur |-> GuessState(img),
                    etat_label |-> StateLabel(GuessState(img)),
                    coefficient_etat |-> StateCoef(GuessState(img)),
                    nombre_etages_estime |-> EstimateFloors(img),
                    surface_estimee_vision |-> None,
                    score_confiance |-> VisionConfidence(img),
                    methode |-> "heuristic",
                    nombre_photos_analysees |-> None,
                    analyses_individuelles |-> << >> ]]

\* _analyze_with_model: the stubs answer maison / bon / 1 floor; the
\* confidence is the top-1 probability of the detections, or 0.7 when the
\* detections have no probs.  When the inference raises, the heuristic runs.
AnalyzeWithModel(img, ml) ==
    IF ml.raises \/ img.kind = "truncated"
    THEN AnalyzeHeuristic(img)
    ELSE [exc |-> None,
          val |-> [ type_bien |-> "maison",
                    etat_exterieur |-> "bon",
                    etat_label |-> StateLabel("bon"),
                    coefficient_etat |-> StateCoef("bon"),
                    nombre_etages_estime |-> 1,
                    surface_estimee_vision |-> None,
                    score_confiance |-> IF ml.top1conf # None
                                        THEN Val(ml.top1conf) ELSE 70,
                    methode |-> "ml_model",
                    nombre_photos_analysees |-> None,
                    analyses_individuelles |-> << >> ]]

\* analyze without its except clause
AnalyzeCatches_Nothing(exc) == FALSE

\* the except clause of analyze (lines 101-103)
AnalyzeCatches(exc) == exc \in {"timeout", "network", "decode"}

\* analyze.  Gives [exc, val].
Analyze(cfg, img, ml) ==
    LET r == IF cfg.use_ml /\ cfg.model # None
             THEN AnalyzeWithModel(img, ml)
             ELSE AnalyzeHeuristic(img)
        exc == IF img.kind = "undecodable" THEN Some("decode") ELSE r.exc
    IN  CASE exc # None /\ ~AnalyzeCatches(Val(exc)) ->
                [exc |-> exc, val |-> GetFallbackAnalysis]
          [] exc # None -> [exc |-> None, val |-> GetFallbackAnalysis]
          [] OTHER -> r

\* max(set(types), key=types.count): the first type, in the iteration order
\* of the set, that no other type outnumbers
MajorityType(types, order) == MostFrequent(types, order)

\* quotient and remainder of a * b by d, for a, b >= 0 and 0 < d <= 10^9,
\* by doubling on b, so that no intermediate value leaves 32 bits
RECURSIVE MulDivQR(_, _, _)
MulDivQR(a, b, d) ==
    IF b = 0 THEN [q |-> 0, r |-> 0]
    ELSE LET h == MulDivQR(a, b \div 2, d)
             q2 == 2 * h.q + ((2 * h.r) \div d)
             r2 == (2 * h.r) % d
         IN  IF b % 2 = 0 THEN [q |-> q2, r |-> r2]
             ELSE [q |-> q2 + (a \div d) + ((r2 + (a % d)) \div d),
                   r |-> (r2 + (a % d)) % d]

Abs(a) == IF a < 0 THEN -a ELSE a

RECURSIVE Pow2(_)
Pow2(e) == IF e = 0 THEN 1 ELSE 2 * Pow2(e - 1)

RECURSIVE Pow2Mod(_, _)
Pow2Mod(e, m) == IF e = 0 THEN 1 % m ELSE (2 * Pow2Mod(e - 1, m)) % m

\* 2^54 modulo the distances between neighbouring doubles, in the units below
Pow54Mod ==
    [m \in {125 * den * Pow2(k) : den \in 1..(ImagesLimit + 1), k \in 0..9} |->
        Pow2Mod(54, m)]

(* The coefficients are Python floats (binary64), and the comparison of    *)
(* line 401 falls on the last bit when a coefficient is exactly 0.05 away  *)
(* from the mean.  A double next to the decimal num / (1000 * den) is held *)
(* exactly, as that decimal and a residual res counted in units of         *)
(* 1 / (125 * den * 2^57): it is num / (1000 * den) plus res units, and    *)
(* one thousandth over den is 2^54 units.                                  *)

\* the exponent of the binade of such a value, between 2^-5 and 2^4: the
\* greatest e with 2^e at or below it
Binade(num, den, res) ==
    LET AtLeast(e) ==
            LET lhs == IF e < 0 THEN num * Pow2(-e) ELSE num
                rhs == IF e < 0 THEN 1000 * den ELSE 1000 * den * Pow2(e)
            IN  lhs > rhs \/ (lhs = rhs /\ res >= 0)
    IN  CHOOSE e \in -5..3 :
            /\ e = -5 \/ AtLeast(e)
            /\ e = 3 \/ ~AtLeast(e + 1)

\* rounding of an exact result to the nearest double, ties to the even
\* mantissa: the residual of the double (53 bits of mantissa: the doubles of
\* the binade of 2^e are 2^(e+5) units * 125 * den apart)
FloatRound(num, den, res) ==
    LET grid == 125 * den * Pow2(Binade(num, den, res) + 5)
        Rem(m) == (MulDivQR(num % m, Pow54Mod[m], m).r + res + m) % m
        rem == Rem(grid)
        down == res - rem
    IN  IF grid > 2 * rem THEN down
        ELSE IF grid < 2 * rem THEN down + grid
        ELSE IF Rem(2 * grid) = rem THEN down ELSE down + grid

\* the double a decimal literal of t thousandths denotes
FloatLitOf ==
    [t \in {StateCoef(StateKeys[i]) : i \in 1..Len(StateKeys)} \cup {50} |->
        FloatRound(t, 1, 0)]

FloatLit(t) == IF t \in DOMAIN FloatLitOf THEN FloatLitOf[t] ELSE FloatRound(t, 1, 0)

\* sum(coefs): the additions of doubles, from the left
RECURSIVE FloatSum(_)
FloatSum(coefs) ==
    IF Len(coefs) = 1
    THEN [num |-> coefs[1], res |-> FloatLit(coefs[1])]
    ELSE LET s == FloatSum(SubSeq(coefs, 1, Len(coefs) - 1))
             t == coefs[Len(coefs)]
             r == FloatRound(s.num + t, 1, s.res + FloatLit(t))
         IN  [num |-> s.num + t, res |-> r]

\* avg_coef = sum(coefs) / len(coefs), line 396
FloatMean(coefs) ==
    LET s == FloatSum(coefs)
    IN  [num |-> s.num, den |-> Len(coefs),
         res |-> FloatRound(s.num, Len(coefs), s.res)]

\* abs(coef - avg_coef) < 0.05, line 401.  The difference of two doubles
\* this close is exact; it is compared with the double of 0.05.
FloatNear(coef, avg) ==
    LET d == avg.den * coef - avg.num
    IN  IF Abs(d) # 50 * avg.den THEN Abs(d) < 50 * avg.den
        ELSE (IF d > 0 THEN 1 ELSE -1) * (avg.den * FloatLit(coef) - avg.res)
                < avg.den * FloatLit(50)

\* avg_coef as the result carries it (line 417), kept to the nearest
\* thousandth
FloatRound3(avg) ==
    LET q == avg.num \div avg.den
        r == avg.num % avg.den
    IN  IF 2 * r < avg.den THEN q
        ELSE IF 2 * r > avg.den THEN q + 1
        ELSE IF avg.res > 0 THEN q + 1
        ELSE IF avg.res < 0 THEN q
        ELSE IF q % 2 = 0 THEN q ELSE q + 1

\* the loop of lines 399-403: the first state of STATES whose coefficient
\* lies within 0.05 of the mean, "bon" when there is none
RECURSIVE MatchState(_, _)
MatchState(keys, avg) ==
    IF keys = << >> THEN "bon"
    ELSE IF FloatNear(StateCoef(keys[1]), avg) THEN keys[1]
    ELSE MatchState(Tail(keys), avg)

\* a boost that does not grow with the number of photographs
MergedConfidence_FlatBoost(scores) == Min2(9500, SeqMax(scores) + 500)

\* lines 408-410: min(95, max(confidences) + len(analyses) * 5)
MergedConfidence(scores) == Min2(9500, SeqMax(scores) + Len(scores) * 500)

\* lines 390-427 of merge_analyses: the fusion of several assessments
FuseAnalyses(analyses, order) ==
    LET n == Len(analyses)
        types == [i \in 1..n |-> analyses[i].type_bien]
        coefs == [i \in 1..n |-> analyses[i].coefficient_etat]
        avg_coef == FloatMean(coefs)
        etat == MatchState(StateKeys, avg_coef)
    IN  [ type_bien |-> MajorityType(types, order),
          etat_exterieur |-> etat,
          etat_label |-> StateLabel(etat),
          coefficient_etat |-> FloatRound3(avg_coef),
          nombre_etages_estime |->
              SeqMax([i \in 1..n |-> analyses[i].nombre_etages_estime]),
          surface_estimee_vision |-> None,
          score_confiance |->
              MergedConfidence([i \in 1..n |-> analyses[i].score_confiance]),
          methode |-> "fusion_multi_photos",
          nombre_photos_analysees |-> Some(n),
          analyses_individuelles |->
              [i \in 1..n |-> analyses[i].score_confiance] ]

\* merge_analyses with the early return of lines 387-388 left out
MergeAnalyses_FusesOne(analyses, order) ==
    IF Len(analyses) = 0 THEN GetFallbackAnalysis
    ELSE FuseAnalyses(analyses, order)

\* merge_analyses
MergeAnalyses(analyses, order) ==
    CASE Len(analyses) = 0 -> GetFallbackAnalysis
      [] Len(analyses) = 1 -> analyses[1]
      [] OTHER -> FuseAnalyses(analyses, order)

\* the images of the model
Sizes == { <<100, 100>>, <<300, 300>>, <<600, 900>>, <<1200, 700>> }

LineSets ==
    { << >>,
      <<40, 41, 300, 302, 600, 601>>,
      [i \in 1..18 |-> 40 * i] }

Images ==
    { [kind |-> "undecodable", width |-> 0, height |-> 0, color |-> "neutre/gris",
       variance |-> 0, texture |-> 0, lines |-> << >>],
      [kind |-> "truncated", width |-> 600, height |-> 900, color |-> "neutre/gris",
       variance |-> 0, texture |-> 0, lines |-> << >>] }
    \cup
    { [kind |-> "ok", width |-> sz[1], height |-> sz[2], color |-> c,
       variance |-> v, texture |-> t, lines |-> l] :
        sz \in Sizes,
        c \in {"blanc/clair", "vegetation", "tons chauds/brique"},
        v \in {100, 1000, 3000, 6000},
        t \in {5, 12, 20, 30, 40, 55, 65, 80},
        l \in LineSets }

\* the photos that follow the first one in a multi-photo request: a sample
Photos ==
    { img \in Images :
        \/ img.kind # "ok"
        \/ /\ img.width = 1200
           /\ img.variance = 1000
           /\ img.texture \in {12, 65}
           /\ img.color \in {"blanc/clair", "vegetation"}
           /\ Len(img.lines) \in {0, 18} }

\* what a loaded model answers
ModelOutputs ==
    { [raises |-> TRUE, top1conf |-> None] }
    \cup
    { [raises |-> FALSE, top1conf |-> c] : c \in {None, Some(0), Some(93), Some(100)} }

NoModelOutput == [raises |-> FALSE, top1conf |-> None]

\* the iteration orders of a set of property types that the model tries
TypeOrders ==
    { <<"maison", "appartement", "immeuble", "terrain", "local_commercial", "inconnu">>,
      <<"inconnu", "local_commercial", "terrain", "immeuble", "appartement", "maison">> }

-----------------------------------------------------------------------------
(* The analyzer object.  vis holds its two attributes, the photo it was    *)
(* last given with what the model answered, the result of that call, the   *)
(* assessments produced so far and their fusion.                           *)

\* VisionAnalyzer.__init__: the shipped _load_model leaves self.model at None
NewAnalyzer(use_ml_model) ==
    [ use_ml |-> use_ml_model,
      model |-> None,
      photo |-> None,
      ml |-> NoModelOutput,
      out |-> [exc |-> None, val |-> GetFallbackAnalysis],
      analyses |-> << >>,
      merged |-> None ]

\* vision_analyzer = VisionAnalyzer() of main.py
IdleVis == NewAnalyzer(FALSE)

Others_vis == <<fetch, eng, req>>

\* self.use_ml and self.model
UsesModel(cfg) == cfg.use_ml /\ cfg.model # None

\* The loading that the comment of _load_model gives for production:
\* self.model = YOLO(...).  The configured-model path runs only after it.
LoadModel ==
    /\ vis.use_ml
    /\ vis.model = None
    /\ vis.photo = None
    /\ vis' = [vis EXCEPT !.model = Some("yolov8")]
    /\ UNCHANGED Others_vis

\* analyze(image_bytes), its result collected as the handlers do
AnalyzePhoto ==
    /\ vis.merged = None
    /\ Len(vis.analyses) < MaxPhotos
    /\ \E img \in (IF vis.analyses = << >> THEN Images ELSE Photos),
          ml \in (IF UsesModel(vis) THEN ModelOutputs ELSE {NoModelOutput}) :
          LET r == Analyze(vis, img, ml)
          IN  vis' = [vis EXCEPT
                        !.photo = Some(img),
                        !.ml = ml,
                        !.out = r,
                        !.analyses = IF r.exc = None
                                     THEN Append(@, r.val) ELSE @]
    /\ UNCHANGED Others_vis

\* merge_analyses(analyses)
MergePhotos ==
    /\ vis.merged = None
    /\ vis.analyses # << >>
    /\ \E order \in TypeOrders :
          vis' = [vis EXCEPT !.merged = Some(MergeAnalyses(vis.analyses, order))]
    /\ UNCHANGED Others_vis

\* the assessments handed to merge_analyses on its own: assessments that
\* analyze produces, and one of them at the ends and near the top of the
\* confidence scale of _calculate_confidence
MergeSample ==
    LET produced == {Analyze(IdleVis, img, NoModelOutput).val : img \in Images}
        picked ==
            { a \in produced :
                <<a.type_bien, a.etat_exterieur, a.score_confiance,
                  a.nombre_etages_estime>> \in
                    { <<"maison", "neuf", 8000, 1>>,
                      <<"maison", "tres_bon", 6000, 3>>,
                      <<"immeuble", "tres_bon", 8000, 2>>,
                      <<"immeuble", "correct", 7000, 2>>,
                      <<"terrain", "bon", 3000, 1>>,
                      <<"maison", "renovation", 5000, 6>>,
                      <<"inconnu", "correct", 3000, 1>> } }
    IN  picked \cup
        { [a EXCEPT !.score_confiance = c] :
            a \in {x \in picked : x.type_bien = "terrain"},
            c \in {2000, 9000, 9500} }

MergeInputs ==
    SeqsOf(MergeSample, 1, MaxAssessments)
    \cup {Repeat(a, n) : a \in MergeSample, n \in 1..ImagesLimit}

\* merge_analyses(analyses) on a list of assessments
MergeList ==
    /\ vis.merged = None
    /\ vis.analyses = << >>
    /\ \E analyses \in MergeInputs, order \in TypeOrders :
          vis' = [vis EXCEPT
                    !.analyses = analyses,
                    !.merged = Some(MergeAnalyses(analyses, order))]
    /\ UNCHANGED Others_vis

-----------------------------------------------------------------------------
(* EstimationEngine (src/backend/services/estimation.py).  Surfaces are    *)
(* held * 1000 inside calculate and * 100 in the result, prices per m2 in  *)
(* cents, totals * 10 inside calculate and in euros in the result,          *)
(* the coefficients of the tables * 100, their product * 10^9, the margin  *)
(* in hundredths, the confidence score * 1000 inside _calculate_confidence *)
(* and * 10 in the result.  The adjusted price per m2 is carried to the    *)
(* hundredth of a cent and the totals to the tenth of a euro; every other  *)
(* quantity is exact.                                                      *)

\* round(a * b / d), to the nearest, ties to even
MulRound(a, b, d) ==
    LET x == MulDivQR(Abs(a), Abs(b), d)
        m == IF 2 * x.r < d THEN x.q
             ELSE IF 2 * x.r > d THEN x.q + 1
             ELSE IF x.q % 2 = 0 THEN x.q ELSE x.q + 1
    IN  IF (a < 0) = (b < 0) THEN m ELSE -m

\* COEF_ETAGES read with the floors capped at 4 instead of 5
CoefEtages_CappedAtFour(etages) ==
    CASE Min2(etages, 4) = 1 -> 100
      [] Min2(etages, 4) = 2 -> 105
      [] Min2(etages, 4) = 3 -> 103
      [] OTHER -> 102

\* COEF_ETAGES.get(min(etages, 5), 1.0), * 100
CoefEtages(etages) ==
    CASE Min2(etages, 5) = 1 -> 100
      [] Min2(etages, 5) = 2 -> 105
      [] Min2(etages, 5) = 3 -> 103
      [] Min2(etages, 5) = 4 -> 102
      [] Min2(etages, 5) = 5 -> 100
      [] OTHER -> 100

\* RATIO_SURFACE with the default ratio for every type
RatioSurface_DefaultOnly(type_bien) == 30

\* RATIO_SURFACE.get(type_bien, 0.30), * 100
RatioSurface(type_bien) ==
    CASE type_bien = "maison" -> 35
      [] type_bien = "appartement" -> 100
      [] type_bien = "immeuble" -> 60
      [] type_bien = "terrain" -> 0
      [] type_bien = "local_commercial" -> 50
      [] OTHER -> 30

\* COEF_SAISON.get(mois, 1.0), * 100
CoefSaison(mois) ==
    CASE mois \in {1, 12} -> 98
      [] mois \in {2, 8, 11} -> 99
      [] mois \in {3, 10} -> 101
      [] mois \in {4, 6, 9} -> 102
      [] mois = 5 -> 103
      [] OTHER -> 100

\* default_surfaces.get(type_bien, 80) of _calculate_surface_habitable
DefaultSurface(type_bien) ==
    CASE type_bien = "maison" -> 100
      [] type_bien = "appartement" -> 70
      [] type_bien = "immeuble" -> 500
      [] type_bien = "terrain" -> 0
      [] type_bien = "local_commercial" -> 150
      [] OTHER -> 80

\* _calculate_surface_habitable taking every surface that is not None or 0,
\* without the tests surface_batie > 0 and surface_terrain > 0
CalculateSurfaceHabitable_AnySign(surface_terrain, surface_batie, type_bien, etages) ==
    CASE TruthyNum(surface_batie) ->
            [exc |-> None, val |-> Val(surface_batie) * 850 * Max2(1, etages)]
      [] surface_terrain = None ->
            [exc |-> Some("type"), val |-> 0]
      [] Val(surface_terrain) # 0 ->
            [exc |-> None,
             val |-> IF type_bien = "maison"
                     THEN Val(surface_terrain) * RatioSurface(type_bien) * etages * 8
                     ELSE Val(surface_terrain) * RatioSurface(type_bien) * 10]
      [] OTHER ->
            [exc |-> None, val |-> DefaultSurface(type_bien) * 1000]

\* _calculate_surface_habitable, * 1000.  Gives [exc, val]: comparing a
\* surface_terrain of None with 0 raises TypeError.
\* _calculate_surface_habitable testing that the built surface is given and
\* not that it is above 0
CalculateSurfaceHabitable_BuiltUntested(surface_terrain, surface_batie, type_bien, etages) ==
    CASE TruthyNum(surface_batie) ->
            [exc |-> None, val |-> Val(surface_batie) * 850 * Max2(1, etages)]
      [] surface_terrain = None ->
            [exc |-> Some("type"), val |-> 0]
      [] Val(surface_terrain) > 0 ->
            [exc |-> None,
             val |-> IF type_bien = "maison"
                     THEN Val(surface_terrain) * RatioSurface(type_bien) * etages * 8
                     ELSE Val(surface_terrain) * RatioSurface(type_bien) * 10]
      [] OTHER ->
            [exc |-> None, val |-> DefaultSurface(type_bien) * 1000]

CalculateSurfaceHabitable(surface_terrain, surface_batie, type_bien, etages) ==
    CASE TruthyNum(surface_batie) /\ Val(surface_batie) > 0 ->
            [exc |-> None, val |-> Val(surface_batie) * 850 * Max2(1, etages)]
      [] surface_terrain = None ->
            [exc |-> Some("type"), val |-> 0]
      [] Val(surface_terrain) > 0 ->
            [exc |-> None,
             val |-> IF type_bien = "maison"
                     THEN Val(surface_terrain) * RatioSurface(type_bien) * etages * 8
                     ELSE Val(surface_terrain) * RatioSurface(type_bien) * 10]
      [] OTHER ->
            [exc |-> None, val |-> DefaultSurface(type_bien) * 1000]

\* the coefficients of _get_dpe_coefficient with 0.77 for the class G
GetDpeCoefficient_LowerG(classe) ==
    CASE classe = Some("A") -> 108
      [] classe = Some("B") -> 105
      [] classe = Some("C") -> 102
      [] classe = Some("E") -> 95
      [] classe = Some("F") -> 88
      [] classe = Some("G") -> 77
      [] OTHER -> 100

\* _get_dpe_coefficient, * 100
GetDpeCoefficient(classe) ==
    CASE classe = Some("A") -> 108
      [] classe = Some("B") -> 105
      [] classe = Some("C") -> 102
      [] classe = Some("D") -> 100
      [] classe = Some("E") -> 95
      [] classe = Some("F") -> 88
      [] classe = Some("G") -> 82
      [] OTHER -> 100

\* _calculate_margin without the branch nb_transactions == 0
CalculateMargin_NoZeroBranch(nb_transactions, vision_confidence, has_dpe) ==
    LET marge ==
          15
          + (CASE nb_transactions >= 20 -> -3
               [] nb_transactions >= 10 -> -2
               [] OTHER -> 0)
          + (CASE vision_confidence >= 8000 -> -2
               [] vision_confidence < 5000 -> 3
               [] OTHER -> 0)
          + (IF has_dpe THEN -2 ELSE 0)
    IN  Max2(8, Min2(30, marge))

\* _calculate_margin, in hundredths (ecart_type is not read)
CalculateMargin(nb_transactions, vision_confidence, has_dpe) ==
    LET marge ==
          15
                + (CASE nb_transactions >= 20 -> -3
               [] nb_transactions >= 10 -> -2
               [] nb_transactions = 0 -> 5
               [] OTHER -> 0)
          + (CASE vision_confidence >= 8000 -> -2
               [] vision_confidence < 5000 -> 3
               [] OTHER -> 0)
          + (IF has_dpe THEN -2 ELSE 0)
    IN  Max2(8, Min2(30, marge))

\* _calculate_confidence of the engine without its last line, * 1000.
\* Gives [exc, val]: comparing a surface_terrain of None with 0 raises.
ScoreBrut(dvf, vision, cadastre, dpe, multi_photo) ==
    LET nb_trans == dvf.nb_transactions
        s1 == 40000
              + (CASE nb_trans >= 20 -> 20000
                   [] nb_trans >= 10 -> 15000
                   [] nb_trans >= 5 -> 10000
                   [] nb_trans > 0 -> 5000
                   [] OTHER -> 0)
        s2 == s1 + 2 * vision.score_confiance - 10000
        s3 == s2 + (IF Val(cadastre.surface_terrain) > 0 THEN 5000 ELSE 0)
                 + (IF TruthyNum(cadastre.surface_batie) THEN 5000 ELSE 0)
                 + (IF TruthyNum(cadastre.annee_construction) THEN 3000 ELSE 0)
        s4 == s3 + (IF dpe # None /\ Val(dpe).classe_energie # None THEN 7000 ELSE 0)
                 + (IF multi_photo THEN 5000 ELSE 0)
        s5 == s4 - (IF dvf.source[1] = "Estimation" THEN 10000 ELSE 0)
                 - (IF cadastre.source = SrcFallback THEN 10000 ELSE 0)
    IN  IF cadastre.surface_terrain = None
        THEN [exc |-> Some("type"), val |-> 0]
        ELSE [exc |-> None, val |-> s5]

\* _calculate_confidence returning the score as computed, without max and min
CalculateConfidence_Unclamped(dvf, vision, cadastre, dpe, multi_photo) ==
    ScoreBrut(dvf, vision, cadastre, dpe, multi_photo)

\* _calculate_confidence of the engine, * 1000
CalculateConfidence(dvf, vision, cadastre, dpe, multi_photo) ==
    LET s == ScoreBrut(dvf, vision, cadastre, dpe, multi_photo)
    IN  [s EXCEPT !.val = Max2(15000, Min2(95000, @))]

\* _assess_data_quality
AssessDataQuality(cadastre, dvf, vision, dpe) ==
    LET points ==
            (CASE dvf.nb_transactions >= 10 -> 3
               [] dvf.nb_transactions > 0 -> 1
               [] OTHER -> 0)
            + (IF Val(cadastre.surface_terrain) > 0 THEN 2 ELSE 0)
            + (IF cadastre.source # SrcFallback THEN 1 ELSE 0)
            + (CASE vision.score_confiance >= 7000 -> 2
                 [] vision.score_confiance >= 5000 -> 1
                 [] OTHER -> 0)
            + (IF dpe # None /\ Val(dpe).classe_energie # None THEN 2 ELSE 0)
    IN  CASE points >= 8 -> "Excellente"
          [] points >= 6 -> "Bonne"
          [] points >= 4 -> "Moyenne"
          [] points >= 2 -> "Limitee"
          [] OTHER -> "Faible"

\* _generate_warnings: the warnings, each named by its rule
GenerateWarnings(cadastre, dvf, vision, dpe) ==
    LET prix_m2 == Val(dvf.prix_m2_moyen)
    IN  (CASE dvf.nb_transactions = 0 -> <<"aucune_transaction">>
           [] dvf.nb_transactions < 5 -> <<"peu_de_transactions">>
           [] OTHER -> << >>)
        \o (IF cadastre.source = SrcFallback THEN <<"cadastre_indisponible">> ELSE << >>)
        \o (IF vision.score_confiance < 5000 THEN <<"image_insuffisante">> ELSE << >>)
        \o (IF dpe # None
            THEN (IF Val(dpe).classe_energie \in {Some("F"), Some("G")}
                  THEN <<"passoire_thermique">> ELSE << >>)
                 \o (IF Val(dpe).is_average THEN <<"dpe_moyenne">> ELSE << >>)
            ELSE <<"dpe_non_disponible">>)
        \o (CASE prix_m2 < 100000 -> <<"prix_tres_bas">>
              [] prix_m2 > 800000 -> <<"prix_eleve">>
              [] OTHER -> << >>)

\* _list_sources
ListSources(cadastre, dvf, vision, dpe) ==
    (IF cadastre.source # SrcFallback THEN <<<<"Cadastre", cadastre.source>>>> ELSE << >>)
    \o <<<<"DVF", dvf.source>>>>
    \o (IF dpe # None THEN <<<<"DPE", Val(dpe).source>>>> ELSE << >>)
    \o <<<<"Vision IA", vision.methode>>>>

\* the units of the fixed-point arithmetic of calculate
CoefUnit == 1000 * 100 * 100 * 100   \* coef_total: the product of the four scales
AjusteUnit == CoefUnit \div 100       \* cents * 10^9 to hundredths of a cent
TotalUnit == 1000 * 1000             \* m2 * 1000 times cents * 100, to euros * 10

\* calculate, with datetime.now().month as mois.  Gives [exc, val].
Calculate(cadastre, dvf, vision, dpe, multi_photo_boost, mois) ==
    LET surface_terrain == cadastre.surface_terrain
        prix_m2_base == Val(dvf.prix_m2_moyen)
        type_bien == vision.type_bien
        coef_etat == vision.coefficient_etat
        etages == vision.nombre_etages_estime
        surface_habitable ==
            CalculateSurfaceHabitable(surface_terrain, cadastre.surface_batie,
                                      type_bien, etages)
        coef_dpe == IF dpe # None
                    THEN GetDpeCoefficient(Val(dpe).classe_energie) ELSE 100
        coef_total == coef_etat * CoefEtages(etages) * CoefSaison(mois) * coef_dpe
        prix_m2_ajuste == MulRound(coef_total, prix_m2_base, AjusteUnit)
        prix_total == MulRound(prix_m2_ajuste, surface_habitable.val, TotalUnit)
        marge_erreur == CalculateMargin(dvf.nb_transactions,
                                        vision.score_confiance, dpe # None)
        prix_bas == MulRound(prix_total, 100 - marge_erreur, 100)
        prix_haut == MulRound(prix_total, 100 + marge_erreur, 100)
        confiance == CalculateConfidence(dvf, vision, cadastre, dpe, multi_photo_boost)
    IN  CASE surface_habitable.exc # None ->
                [exc |-> surface_habitable.exc, val |-> None]
          [] confiance.exc # None ->
                [exc |-> confiance.exc, val |-> None]
          [] OTHER ->
                [exc |-> None,
                 val |-> Some(
                  [ surface_terrain |-> surface_terrain,
                    surface_habitable_estimee |-> RoundDiv(surface_habitable.val, 10),
                    prix_m2_secteur |-> prix_m2_base,
                    prix_m2_ajuste |-> RoundDiv(prix_m2_ajuste, 100),
                    prix_total_estime |-> RoundDiv(prix_total, 10),
                    prix_bas |-> RoundDiv(prix_bas, 10),
                    prix_haut |-> RoundDiv(prix_haut, 10),
                    confiance |-> RoundDiv(confiance.val, 100),
                    qualite_donnees |-> AssessDataQuality(cadastre, dvf, vision, dpe),
                    sources_utilisees |-> ListSources(cadastre, dvf, vision, dpe),
                    avertissements |-> GenerateWarnings(cadastre, dvf, vision, dpe),
                    details_calcul |->
                      [ coefficient_etat |-> coef_etat,
                        coefficient_dpe |-> coef_dpe,
                        coefficient_etages |-> CoefEtages(etages),
                        coefficient_saison |-> CoefSaison(mois),
                        coefficient_total |-> RoundDiv(coef_total, CoefUnit \div 1000),
                        marge_erreur_pct |-> marge_erreur * 10 ] ])]

\* the inputs of calculate that the model tries.  Parcel records: what
\* get_parcelle returns, and what merge_with_manual makes of it.
ParcelInputs ==
    { [GetFallbackData([lat100 |-> 4885, lon100 |-> 235]) EXCEPT
          !.surface_terrain = sf[1],
          !.surface_batie = sf[2],
          !.annee_construction = as[1],
          !.source = as[2],
          !.avertissement = (as[2] = SrcFallback)] :
        sf \in { <<None, None>>, <<Some(0), None>>, <<Some(500), None>>,
                 <<Some(500), Some(0)>>, <<Some(500), Some(120)>>,
                 <<Some(0), Some(120)>>, <<Some(-50), None>>,
                 <<Some(500), Some(-10)>> },
        as \in { <<None, SrcApicarto>>, <<None, SrcFallback>>,
                 <<Some(1990), SrcApicarto>> } }

\* Market records: the two defaults, and observed statistics
MarketInputs ==
    { GetFallbackStats,
      Val(GetCommuneStats([lat100 |-> 4885, lon100 |-> 235],
                          Ok([code |-> "75056"])).val),
      Val(GetCommuneStats([lat100 |-> 4200, lon100 |-> 900],
                          Ok([code |-> "09001"])).val) }
    \cup
    { [ prix_m2_moyen |-> Some(np[2]),
        prix_m2_median |-> Some(np[2]),
        prix_m2_min |-> Some(np[2]),
        prix_m2_max |-> Some(np[2]),
        ecart_type |-> Some(0),
        nb_transactions |-> np[1],
        periode |-> "Derniers mois",
        rayon_recherche |-> Radius,
        transactions_detail |-> << >>,
        source |-> SrcDvf,
        avertissement |-> FALSE ] :
        np \in { <<1, 50000>>, <<5, 300000>>, <<10, 300000>>, <<20, 900000>> } }

\* Assessments: every type and floor count, with some conditions and
\* confidences (0.7 is what the configured-model path gives)
VisionInputs ==
    { [GetFallbackAnalysis EXCEPT
          !.type_bien = t,
          !.etat_exterieur = ec[2],
          !.etat_label = StateLabel(ec[2]),
          !.coefficient_etat = StateCoef(ec[2]),
          !.nombre_etages_estime = ec[1],
          !.score_confiance = ec[3],
          !.methode = ec[4]] :
        t \in PropertyTypes,
        ec \in { <<1, "neuf", 9500, "fusion_multi_photos">>,
                 <<1, "bon", 70, "ml_model">>,
                 <<1, "bon", 5000, "heuristic">>,
                 <<2, "gros_travaux", 8000, "heuristic">>,
                 <<2, "neuf", 9500, "fusion_multi_photos">>,
                 <<FloorCap, "bon", 5000, "heuristic">>,
                 <<FloorCap, "neuf", 9500, "fusion_multi_photos">> } }
    \cup {GetFallbackAnalysis}

DpeInputs ==
    { None,
      Some(FormatDpeResponse([classe |-> Some("A")])),
      Some(FormatDpeResponse([classe |-> Some("F")])),
      Some(FormatDpeResponse([classe |-> None])),
      Some([classe_energie |-> Some("G"), is_average |-> TRUE, source |-> SrcMoyenne]) }

MonthInputs == {1, 5}

\* estimation_engine = EstimationEngine() of main.py: the engine keeps no
\* attribute; eng holds the call in progress
IdleEng == [pc |-> "idle"]

Others_eng == <<fetch, vis, req>>

\* one call of calculate
EngineCalculate ==
    /\ eng.pc = "idle"
    /\ \E cadastre \in ParcelInputs, dvf \in MarketInputs, vision \in VisionInputs,
          dpe \in DpeInputs, multi \in BOOLEAN, mois \in MonthInputs :
          eng' = [ pc |-> "done",
                   cadastre |-> cadastre,
                   dvf |-> dvf,
                   vision |-> vision,
                   dpe |-> dpe,
                   multi_photo_boost |-> multi,
                   mois |-> mois,
                   out |-> Calculate(cadastre, dvf, vision, dpe, multi, mois) ]
    /\ UNCHANGED Others_eng

\* The engine as an object that serves several calls.  EstimationEngine has
\* no __init__ and calculate assigns no attribute: self is what the calls
\* could leave behind, nothing at construction.
NewEngine == << >>

\* calculate reading the month of the call before, kept on self
CalculateOn_KeepsMonth(self, cadastre, dvf, vision, dpe, multi_photo_boost, mois) ==
    [ self |-> <<mois>>,
      out |-> Calculate(cadastre, dvf, vision, dpe, multi_photo_boost,
                        IF self = << >> THEN mois ELSE self[1]) ]

\* calculate as a method: the attributes of self after the call, and the
\* result.  The tables are class constants, never assigned.
CalculateOn(self, cadastre, dvf, vision, dpe, multi_photo_boost, mois) ==
    [ self |-> self,
      out |-> Calculate(cadastre, dvf, vision, dpe, multi_photo_boost, mois) ]

\* the calls that one engine is given in a row
CallInputs ==
    { [cadastre |-> c, dvf |-> GetFallbackStats, vision |-> GetFallbackAnalysis,
       dpe |-> d, multi_photo_boost |-> FALSE, mois |-> m] :
        c \in {p \in ParcelInputs :
                  /\ p.source = SrcApicarto
                  /\ p.annee_construction = None
                  /\ p.surface_terrain \in {None, Some(500)}
                  /\ p.surface_batie \in {None, Some(120)}},
        d \in {x \in DpeInputs : x = None \/ Val(x).classe_energie = Some("G")},
        m \in MonthInputs }

CallsServed == IF eng.pc = "idle" THEN << >> ELSE eng.calls

\* estimation_engine.calculate(...), once more on the same engine
EngineServe ==
    /\ eng.pc \in {"idle", "serving"}
    /\ Len(CallsServed) < MaxCalls
    /\ \E in \in CallInputs :
          LET r == CalculateOn(IF eng.pc = "idle" THEN NewEngine ELSE eng.self,
                               in.cadastre, in.dvf, in.vision, in.dpe,
                               in.multi_photo_boost, in.mois)
          IN  eng' = [ pc |-> "serving",
                       self |-> r.self,
                       calls |-> Append(CallsServed, [in |-> in, out |-> r.out]) ]
    /\ UNCHANGED Others_eng

-----------------------------------------------------------------------------
(* One fetch of one aggregator, step by step.  The outcome of a provider   *)
(* call is chosen when the call is issued and kept in env.                 *)

Services == {"cadastre", "dvf", "dpe"}

FirstStep(svc) ==
    CASE svc = "cadastre" -> "cad_query"
      [] svc = "dvf" -> "dvf_cquest"
      [] svc = "dpe" -> "dpe_geocode"

NoEnv ==
    [ apicarto |-> Unmade, gpu |-> Unmade,
      cquest |-> Unmade, geo_etalab |-> Unmade, geo_commune |-> Unmade,
      geocode |-> Unmade, search |-> Unmade, postal |-> Unmade ]

\* the fetch record on entry of get_parcelle / get_stats / get_dpe
StartFetch(svc, loc, env) ==
    [ svc |-> svc, pc |-> FirstStep(svc), loc |-> loc, env |-> env,
      radius |-> Radius, months |-> Months,
      rec |-> None, tx |-> << >>, address |-> None,
      log |-> << >>, ret |-> NotReturned ]

IdleFetch == [StartFetch("cadastre", [lat100 |-> 0, lon100 |-> 0], NoEnv)
                EXCEPT !.svc = "none", !.pc = "idle"]

StepOf(s) ==
    CASE s.pc = "cad_query" -> CadastreQueryStep(s)
      [] s.pc = "cad_enrich" -> CadastreEnrichStep(s)
      [] s.pc = "cad_fallback" -> CadastreFallbackStep(s)
      [] s.pc = "dvf_cquest" -> DvfCquestStep(s)
      [] s.pc = "dvf_etalab" -> DvfEtalabStep(s)
      [] s.pc = "dvf_process" -> DvfProcessStep(s)
      [] s.pc = "dvf_commune" -> DvfCommuneStep(s)
      [] s.pc = "dpe_geocode" -> DpeGeocodeStep(s)
      [] s.pc = "dpe_search" -> DpeSearchStep(s)
      [] s.pc = "dpe_postal" -> DpePostalStep(s)
      [] OTHER -> s

\* a whole fetch under given provider outcomes
RECURSIVE Run(_)
Run(s) == IF s.pc \in {"done", "idle"} THEN s ELSE Run(StepOf(s))

\* CadastreService.get_parcelle, DVFService.get_stats, DPEService.get_dpe as
\* functions of the point and of the provider outcomes
GetParcelle(loc, env) == Run(StartFetch("cadastre", loc, env)).ret
GetStats(loc, env) == Run(StartFetch("dvf", loc, env)).ret
GetDpe(loc, env) == Run(StartFetch("dpe", loc, env)).ret

Others_fetch == <<vis, eng, req>>

Begin ==
    /\ fetch.pc = "idle"
    /\ \E svc \in Services, loc \in Locations :
          fetch' = StartFetch(svc, loc, NoEnv)
    /\ UNCHANGED Others_fetch

CadastreQuery ==
    /\ fetch.pc = "cad_query"
    /\ \E o \in ApicartoOutcomes :
          fetch' = CadastreQueryStep([fetch EXCEPT !.env.apicarto = o])
    /\ UNCHANGED Others_fetch

CadastreEnrich ==
    /\ fetch.pc = "cad_enrich"
    /\ IF Val(fetch.rec).has_geometry
       THEN \E o \in GpuOutcomes :
                fetch' = CadastreEnrichStep([fetch EXCEPT !.env.gpu = o])
       ELSE fetch' = CadastreEnrichStep(fetch)
    /\ UNCHANGED Others_fetch

CadastreFallback ==
    /\ fetch.pc = "cad_fallback"
    /\ fetch' = CadastreFallbackStep(fetch)
    /\ UNCHANGED Others_fetch

DvfCquest ==
    /\ fetch.pc = "dvf_cquest"
    /\ \E o \in CquestOutcomes :
          fetch' = DvfCquestStep([fetch EXCEPT !.env.cquest = o])
    /\ UNCHANGED Others_fetch

DvfEtalab ==
    /\ fetch.pc = "dvf_etalab"
    /\ \E o \in GeoOutcomes :
          fetch' = DvfEtalabStep([fetch EXCEPT !.env.geo_etalab = o])
    /\ UNCHANGED Others_fetch

DvfProcess ==
    /\ fetch.pc = "dvf_process"
    /\ fetch' = DvfProcessStep(fetch)
    /\ UNCHANGED Others_fetch

DvfCommune ==
    /\ fetch.pc = "dvf_commune"
    /\ \E o \in GeoOutcomes :
          fetch' = DvfCommuneStep([fetch EXCEPT !.env.geo_commune = o])
    /\ UNCHANGED Others_fetch

DpeGeocode ==
    /\ fetch.pc = "dpe_geocode"
    /\ \E o \in GeocodeOutcomes :
          fetch' = DpeGeocodeStep([fetch EXCEPT !.env.geocode = o])
    /\ UNCHANGED Others_fetch

DpeSearch ==
    /\ fetch.pc = "dpe_search"
    /\ \E o \in SearchOutcomes :
          fetch' = DpeSearchStep([fetch EXCEPT !.env.search = o])
    /\ UNCHANGED Others_fetch

DpePostal ==
    /\ fetch.pc = "dpe_postal"
    /\ IF Val(fetch.address).postcode # None
       THEN \E o \in PostalOutcomes :
                fetch' = DpePostalStep([fetch EXCEPT !.env.postal = o])
       ELSE fetch' = DpePostalStep(fetch)
    /\ UNCHANGED Others_fetch

-----------------------------------------------------------------------------
(* The request handlers of src/main.py.  req holds one request: the        *)
(* handler it entered, the await it stands before, its local variables,    *)
(* the calls of calculate it has made and its response.                    *)

\* the awaits of a handler, in the order of its code
StepsOf_DpeSkipped(handler) ==
    IF handler = "estimate"
    THEN <<"analyze", "get_parcelle", "get_stats", "calculate", "done">>
    ELSE <<"analyze", "merge_analyses", "get_parcelle", "get_stats", "calculate",
           "done">>

StepsOf(handler) ==
    IF handler = "estimate"
    THEN <<"analyze", "get_parcelle", "get_stats", "get_dpe", "calculate", "done">>
    ELSE <<"analyze", "merge_analyses", "get_parcelle", "get_stats", "get_dpe",
           "calculate", "done">>

\* the step that follows pc in the handler
NextPc(handler, pc) ==
    LET steps == StepsOf(handler)
        i == CHOOSE j \in 1..Len(steps) : steps[j] = pc
    IN  steps[i + 1]

IdleReq ==
    [ handler |-> "none",
      pc |-> "idle",
      loc |-> [lat100 |-> 0, lon100 |-> 0],
      images |-> << >>,
      mode_expert |-> FALSE,
      donnees_manuelles |-> << >>,
      all_vision_results |-> << >>,
      vision_data |-> None,
      cadastre_data |-> None,
      dvf_data |-> None,
      dpe_data |-> [returned |-> FALSE, value |-> None],
      returned |-> << >>,
      calculate_calls |-> << >>,
      response |-> None ]

\* raise HTTPException(status_code=...), and FastAPI's own rejection (422)
Reject(status) == [status |-> status, body |-> None]

\* latitude: ge=-90, le=90 and longitude: ge=-180, le=180 of estimate_property
InRange(loc) ==
    /\ -9000 <= loc.lat100 /\ loc.lat100 <= 9000
    /\ -18000 <= loc.lon100 /\ loc.lon100 <= 18000

\* the requests of the model
HandlerLocations ==
    { loc \in Locations : loc.lat100 \in {4885, 9100} \/ loc.lon100 = 18100 }

HandlerImages ==
    { img \in Photos :
        \/ img.kind = "undecodable"
        \/ /\ img.kind = "ok"
           /\ img.color = "blanc/clair"
           /\ \/ img.texture = 12 /\ img.lines = << >>
              \/ img.texture = 65 /\ img.lines # << >> }

\* an element of images_base64: a string base64.b64decode accepts or not
Base64Inputs ==
    { [b64_ok |-> FALSE, img |-> CHOOSE img \in HandlerImages : img.kind = "undecodable"] }
    \cup { [b64_ok |-> TRUE, img |-> img] : img \in HandlerImages }

Uploads ==
    { [empty |-> TRUE, content_type_ok |-> TRUE, img |-> img] :
        img \in {i \in HandlerImages : i.kind = "undecodable"} }
    \cup
    { [empty |-> FALSE, content_type_ok |-> k, img |-> img] :
        k \in BOOLEAN, img \in HandlerImages }

\* mode_expert and donnees_manuelles: << >> is both None and the empty dict
ManualInputs ==
    { [mode_expert |-> FALSE, donnees_manuelles |-> << >>],
      [mode_expert |-> TRUE, donnees_manuelles |-> << >>],
      [mode_expert |-> FALSE,
       donnees_manuelles |-> [surface_batie |-> Some(120)]],
      [mode_expert |-> TRUE,
       donnees_manuelles |-> [surface_batie |-> Some(120),
                              annee_construction |-> Some(1990)]],
      [mode_expert |-> TRUE,
       donnees_manuelles |-> [surface_terrain |-> Some(-50)]],
      [mode_expert |-> TRUE,
       donnees_manuelles |-> [surface_batie |-> Some(-50)]],
      [mode_expert |-> TRUE,
       donnees_manuelles |-> [surface_terrain |-> Some(0),
                              surface_batie |-> Some(0)]],
      [mode_expert |-> TRUE,
       donnees_manuelles |-> [surface_terrain |-> None,
                              nombre_etages |-> Some(3)]] }

\* the answers of the providers during a request of the model
ParcelEnvs ==
    { [NoEnv EXCEPT !.apicarto = a, !.gpu = g] :
        a \in { o \in ApicartoOutcomes :
                  \/ o.kind \in {"timeout", "empty"}
                  \/ /\ o.kind = "ok"
                     /\ o.body.codes_ok
                     /\ o.body.contenance.present
                     /\ \/ o.body.contenance.val = Some(500)
                        \/ o.body.contenance.val = None /\ ~o.body.geometry },
        g \in { Failure("timeout"),
                Ok(<<[hauteur |-> Some(7), numeric |-> TRUE]>>) } }

MarketEnvs ==
    { [NoEnv EXCEPT !.cquest = c, !.geo_etalab = Ok([code |-> "75056"]),
                    !.geo_commune = g] :
        c \in { o \in CquestOutcomes :
                  \/ o.kind = "timeout"
                  \/ /\ o.kind = "ok"
                     /\ \A i \in 1..Len(o.body) :
                           /\ o.body[i].date = Dates_iso
                           /\ o.body[i].prix = Some(300000) },
        g \in { Failure("timeout"), Ok([code |-> "75056"]) } }

EnergyEnvs ==
    { [NoEnv EXCEPT !.geocode = g, !.search = r, !.postal = p] :
        g \in { Failure("timeout"), Ok([postcode |-> Some("75001")]) },
        r \in { Failure("empty"), Ok(<<[date |-> 1, classe |-> Some("D")]>>) },
        p \in { Failure("timeout"),
                Ok([results |-> <<Some("G")>>, order |-> <<"G", "D">>]) } }

Others_req == <<fetch, vis, eng>>

\* POST /estimate up to the first await (lines 162-190): FastAPI rejects
\* coordinates out of range before the handler runs; the handler rejects an
\* empty file and a content type that is not an image
PostEstimate ==
    /\ req.pc = "idle"
    /\ \E loc \in HandlerLocations, file \in Uploads :
          LET r == [req EXCEPT !.handler = "estimate", !.loc = loc,
                               !.images = <<[b64_ok |-> TRUE, img |-> file.img]>>]
          IN  req' =
                CASE ~InRange(loc) ->
                        [r EXCEPT !.pc = "done", !.response = Some(Reject(422))]
                  [] file.empty \/ ~file.content_type_ok ->
                        [r EXCEPT !.pc = "done", !.response = Some(Reject(400))]
                  [] OTHER ->
                        [r EXCEPT !.pc = "analyze"]
    /\ UNCHANGED Others_req

\* POST /estimate/multi up to the loop (lines 227-244): MultiPhotoRequest
\* puts no range on the coordinates
PostEstimateMulti ==
    /\ req.pc = "idle"
    /\ \E loc \in HandlerLocations,
          images \in SeqsOf(Base64Inputs, 0, MaxImages)
                       \cup {Repeat(b, ImagesLimit + 1) :
                                b \in {x \in Base64Inputs : ~x.b64_ok}}
                       \cup {Repeat(b, ImagesLimit) :
                                b \in {x \in Base64Inputs :
                                          x.b64_ok /\ x.img.kind = "ok"
                                          /\ x.img.lines = << >>}},
          manual \in ManualInputs :
          LET r == [req EXCEPT !.handler = "estimate_multi", !.loc = loc,
                               !.images = images,
                               !.mode_expert = manual.mode_expert,
                               !.donnees_manuelles = manual.donnees_manuelles]
          IN  req' =
                IF Len(images) = 0 \/ Len(images) > ImagesLimit
                THEN [r EXCEPT !.pc = "done", !.response = Some(Reject(400))]
                ELSE [r EXCEPT !.pc = "analyze"]
    /\ UNCHANGED Others_req

\* vision_analyzer.analyze: line 192 of estimate_property, and one turn of
\* the loop of estimate_multi_photos (lines 247-254), which skips an image
\* that base64 cannot decode or on which analyze raises
HandlerAnalyze ==
    /\ req.pc = "analyze"
    /\ LET i == Len(req.returned) + 1
           image == req.images[i]
           r == Analyze(vis, image.img, NoModelOutput)
           last == i = Len(req.images)
           kept == IF image.b64_ok /\ r.exc = None
                   THEN Append(req.all_vision_results, r.val)
                   ELSE req.all_vision_results
           seen == [req EXCEPT !.returned = Append(@, "analyze"),
                               !.all_vision_results = kept]
       IN  req' =
             CASE req.handler = "estimate" /\ r.exc # None ->
                     [seen EXCEPT !.pc = "done", !.response = Some(Reject(500))]
               [] req.handler = "estimate" ->
                     [seen EXCEPT !.pc = NextPc(req.handler, req.pc),
                                  !.vision_data = Some(r.val)]
               [] last -> [seen EXCEPT !.pc = NextPc(req.handler, req.pc)]
               [] OTHER -> seen
    /\ UNCHANGED Others_req

\* lines 256-260 of estimate_multi_photos
HandlerMerge_NoEmptyCheck ==
    /\ req.pc = "merge_analyses"
    /\ \E order \in TypeOrders :
          req' = [req EXCEPT
                    !.pc = NextPc(req.handler, req.pc),
                    !.returned = Append(@, "merge_analyses"),
                    !.vision_data =
                        Some(MergeAnalyses(req.all_vision_results, order))]
    /\ UNCHANGED Others_req

HandlerMerge ==
    /\ req.pc = "merge_analyses"
    /\ \E order \in TypeOrders :
          req' =
            IF req.all_vision_results = << >>
            THEN [req EXCEPT !.pc = "done", !.response = Some(Reject(400))]
            ELSE [req EXCEPT
                    !.pc = NextPc(req.handler, req.pc),
                    !.returned = Append(@, "merge_analyses"),
                    !.vision_data =
                        Some(MergeAnalyses(req.all_vision_results, order))]
    /\ UNCHANGED Others_req

\* await cadastre_service.get_parcelle (line 195; lines 263-273 with the
\* expert mode of estimate_multi_photos)
HandlerGetParcelle ==
    /\ req.pc = "get_parcelle"
    /\ \E env \in ParcelEnvs :
          LET ret == GetParcelle(req.loc, env)
              expert == /\ req.handler = "estimate_multi"
                        /\ req.mode_expert
                        /\ req.donnees_manuelles # << >>
          IN  req' =
                CASE ret.raised ->
                        [req EXCEPT !.pc = "done", !.response = Some(Reject(500))]
                  [] ret.value # None /\ expert ->
                        [req EXCEPT
                           !.pc = NextPc(req.handler, req.pc),
                           !.returned = @ \o <<"get_parcelle", "merge_with_manual">>,
                           !.cadastre_data =
                               Some(MergeWithManual(Val(ret.value),
                                                    req.donnees_manuelles))]
                  [] OTHER ->
                        [req EXCEPT
                           !.pc = IF expert THEN "done" ELSE NextPc(req.handler, req.pc),
                           !.returned = Append(@, "get_parcelle"),
                           !.cadastre_data = ret.value,
                           !.response = IF expert THEN Some(Reject(500)) ELSE @]
    /\ UNCHANGED Others_req

\* await dvf_service.get_stats (lines 198-202, 276-281)
HandlerGetStats ==
    /\ req.pc = "get_stats"
    /\ \E env \in MarketEnvs :
          LET ret == GetStats(req.loc, env)
          IN  req' =
                IF ret.raised
                THEN [req EXCEPT !.pc = "done", !.response = Some(Reject(500))]
                ELSE [req EXCEPT
                        !.pc = NextPc(req.handler, req.pc),
                        !.returned = Append(@, "get_stats"),
                        !.dvf_data = ret.value]
    /\ UNCHANGED Others_req

\* await dpe_service.get_dpe (lines 205, 282)
HandlerGetDpe ==
    /\ req.pc = "get_dpe"
    /\ \E env \in EnergyEnvs :
          LET ret == GetDpe(req.loc, env)
          IN  req' =
                IF ret.raised
                THEN [req EXCEPT !.pc = "done", !.response = Some(Reject(500))]
                ELSE [req EXCEPT
                        !.pc = NextPc(req.handler, req.pc),
                        !.returned = Append(@, "get_dpe"),
                        !.dpe_data = [returned |-> TRUE, value |-> ret.value]]
    /\ UNCHANGED Others_req

\* estimation_engine.calculate and the return (lines 208-224, 285-299): a
\* call on a record that is None raises like any other exception of the
\* handler, which answers 500
HandlerCalculate ==
    /\ req.pc = "calculate"
    /\ \E mois \in MonthInputs :
          LET call == [ after |-> req.returned,
                        cadastre |-> req.cadastre_data,
                        dvf |-> req.dvf_data,
                        vision |-> req.vision_data,
                        dpe |-> req.dpe_data ]
              multi_photo_boost == /\ req.handler = "estimate_multi"
                                   /\ Len(req.all_vision_results) > 1
              out == IF req.cadastre_data = None \/ req.dvf_data = None
                        \/ req.vision_data = None
                     THEN [exc |-> Some("type"), val |-> None]
                     ELSE Calculate(Val(req.cadastre_data), Val(req.dvf_data),
                                    Val(req.vision_data), req.dpe_data.value,
                                    multi_photo_boost, mois)
          IN  req' = [req EXCEPT
                        !.pc = NextPc(req.handler, req.pc),
                        !.calculate_calls = Append(@, call),
                        !.response = IF out.exc # None
                                     THEN Some(Reject(500))
                                     ELSE Some([status |-> 200, body |-> out.val])]
    /\ UNCHANGED Others_req

\* GET /cadastre (lines 302-313): the coordinates are declared without a
\* range; an exception of get_parcelle leaves the handler (500), a record
\* that is None or empty is answered 404
GetCadastre ==
    /\ req.pc = "idle"
    /\ \E loc \in HandlerLocations, env \in ParcelEnvs :
          LET ret == GetParcelle(loc, env)
              r == [req EXCEPT !.handler = "get_cadastre", !.loc = loc,
                               !.pc = "done"]
          IN  req' =
                CASE ret.raised -> [r EXCEPT !.response = Some(Reject(500))]
                  [] ret.value = None ->
                        [r EXCEPT !.returned = Append(@, "get_parcelle"),
                                  !.response = Some(Reject(404))]
                  [] OTHER ->
                        [r EXCEPT !.returned = Append(@, "get_parcelle"),
                                  !.cadastre_data = ret.value,
                                  !.response = Some([status |-> 200,
                                                     body |-> ret.value])]
    /\ UNCHANGED Others_req

\* GET /dvf (lines 316-326): the radius is bounded (ge=100, le=2000), the
\* coordinates are not
GetDvf ==
    /\ req.pc = "idle"
    /\ \E loc \in HandlerLocations, env \in MarketEnvs :
          LET ret == GetStats(loc, env)
              r == [req EXCEPT !.handler = "get_dvf", !.loc = loc,
                               !.pc = "done"]
          IN  req' =
                IF ret.raised
                THEN [r EXCEPT !.response = Some(Reject(500))]
                ELSE [r EXCEPT !.returned = Append(@, "get_stats"),
                               !.dvf_data = ret.value,
                               !.response = Some([status |-> 200,
                                                  body |-> ret.value])]
    /\ UNCHANGED Others_req

\* One call of merge_with_manual on a record get_parcelle returned.  In
\* SpecManual req holds the heap of the call: the reference of the fetched
\* record, what it held at the call, the manual data and the reference
\* returned.
FetchedParcels ==
    { Val(ret.value) :
        ret \in { r \in { GetParcelle(loc, env) :
                            loc \in HandlerLocations, env \in ParcelEnvs } :
                    ~r.raised /\ r.value # None } }

ManualKeys == {"surface_terrain", "surface_batie", "annee_construction", "commune"}

ManualValues == {None, Some(0), Some(120)}

ManualData == UNION { [keys -> ManualValues] : keys \in SUBSET ManualKeys }

MergeManual ==
    /\ req.pc = "idle"
    /\ \E parcel \in FetchedParcels, manual_data \in ManualData :
          LET out == MergeWithManualAt(<<parcel>>, 1, manual_data)
          IN  req' = [ handler |-> "merge_with_manual",
                       pc |-> "done",
                       heap |-> out.heap,
                       cadastre_data |-> 1,
                       fetched |-> parcel,
                       manual_data |-> manual_data,
                       merged |-> out.ret ]
    /\ UNCHANGED Others_req


Init ==
    /\ fetch = IdleFetch
    /\ vis = IdleVis
    /\ eng = IdleEng
    /\ req = IdleReq

NextFetch ==
    \/ Begin
    \/ CadastreQuery \/ CadastreEnrich \/ CadastreFallback
    \/ DvfCquest \/ DvfEtalab \/ DvfProcess \/ DvfCommune
    \/ DpeGeocode \/ DpeSearch \/ DpePostal

SpecFetch == Init /\ [][NextFetch]_vars

\* The analyzer alone: constructed with either value of use_ml_model
InitVision ==
    /\ fetch = IdleFetch
    /\ vis \in {NewAnalyzer(u) : u \in BOOLEAN}
    /\ eng = IdleEng
    /\ req = IdleReq

NextVision ==
    \/ LoadModel
    \/ AnalyzePhoto
    \/ MergePhotos

SpecVision == InitVision /\ [][NextVision]_vars

\* merge_analyses alone
NextMerge == MergeList

SpecMerge == Init /\ [][NextMerge]_vars

\* The engine alone
NextEngine == EngineCalculate

SpecEngine == Init /\ [][NextEngine]_vars

\* One engine serving several calls
NextEngineCalls == EngineServe

SpecEngineCalls == Init /\ [][NextEngineCalls]_vars

\* merge_with_manual alone
NextManual == MergeManual

SpecManual == Init /\ [][NextManual]_vars

\* One request through one of the handlers of main.py
NextHandler ==
    \/ PostEstimate
    \/ PostEstimateMulti
    \/ HandlerAnalyze
    \/ HandlerMerge
    \/ HandlerGetParcelle
    \/ HandlerGetStats
    \/ HandlerGetDpe
    \/ HandlerCalculate
    \/ GetCadastre
    \/ GetDvf

SpecHandler == Init /\ [][NextHandler]_vars

-----------------------------------------------------------------------------
(* Properties of the aggregators (SpecFetch) *)

FetchDone == fetch.pc = "done"

\* the tiers a log enters, in order
TiersOf(log) ==
    LET t == SelectSeq(log, LAMBDA e : e.k = "tier")
    IN  [i \in 1..Len(t) |-> t[i].n]

TierRank(n) ==
    CASE n = "primary" -> 1 [] n = "secondary" -> 2 [] n = "default" -> 3

Entered(n) == \E i \in 1..Len(fetch.log) : fetch.log[i] = Tier(n)

\* a replay of the finished fetch agrees with it (the step machine and Run
\* are the same function of the provider outcomes)
ReplayAgrees ==
    FetchDone => Run(StartFetch(fetch.svc, fetch.loc, fetch.env)) = fetch

C3_NoNetworkInDefaultTier ==
    \A i, j \in 1..Len(fetch.log) :
        (i < j /\ fetch.log[i] = Tier("default")) => fetch.log[j].k # "call"

\* the primary tier errored, timed out, or returned nothing it could read
PrimaryFailed ==
    CASE fetch.svc = "cadastre" ->
            \/ fetch.env.apicarto.kind \in FailKinds
            \/ (fetch.env.apicarto.kind = "ok" /\ ~fetch.env.apicarto.body.codes_ok)
      [] fetch.svc = "dvf" -> fetch.env.cquest.kind \in FailKinds
      [] fetch.svc = "dpe" ->
            \/ fetch.env.geocode.kind \in FailKinds
            \/ fetch.env.search.kind \in FailKinds
      [] OTHER -> FALSE

\* the secondary tier was tried and gave nothing
SecondaryFailed ==
    /\ Entered("secondary")
    /\ CASE fetch.svc = "dvf" -> fetch.env.geo_etalab.kind # "unmade"
         [] fetch.svc = "dpe" ->
                \/ fetch.env.postal.kind \in FailKinds
                \/ Val(fetch.address).postcode = None
         [] OTHER -> FALSE

\* get_stats: the primary answered transactions, and none of them gave a
\* price per m2 (all filtered out, or their processing raised)
PrimaryUnusable ==
    /\ fetch.svc = "dvf"
    /\ fetch.env.cquest.kind = "ok"
    /\ ProcessTransactions(fetch.env.cquest.body, fetch.radius, fetch.months).val = None

TiersInOrder ==
    LET t == TiersOf(fetch.log)
    IN  \A i, j \in 1..Len(t) : i < j => TierRank(t[i]) < TierRank(t[j])

\* C4, as claimed: the tiers are visited in the order primary, secondary,
\* default; the secondary query is never issued when the primary returned a
\* non-empty result; the default tier is never entered without the secondary
\* tier having been tried and having failed.
C4_TierOrderAsClaimed ==
    /\ TiersInOrder
    /\ Entered("secondary") => (Entered("primary") /\ PrimaryFailed)
    /\ Entered("default") => SecondaryFailed

\* C4, amended: the tiers are visited in the order primary, secondary,
\* default, each at most once; the secondary query is never issued when the
\* primary returned a non-empty result; the default tier is entered only
\* after the primary tier, and only if the last tier tried failed or (in
\* get_stats) the primary's transactions left no usable price.
C4_TierOrder ==
    /\ TiersInOrder
    /\ Entered("secondary") => (Entered("primary") /\ PrimaryFailed)
    /\ Entered("default") =>
          /\ Entered("primary")
          /\ \/ SecondaryFailed
             \/ (~Entered("secondary") /\ PrimaryFailed)
             \/ (~Entered("secondary") /\ PrimaryUnusable)

\* get_stats entered its default tier straight from the primary one, whose
\* transactions were all filtered out
C4_Witness ==
    /\ FetchDone
    /\ fetch.svc = "dvf"
    /\ TiersOf(fetch.log) = <<"primary", "default">>
    /\ fetch.env.cquest.kind = "ok"

\* timeout <-> empty
Swap(o) ==
    CASE o.kind = "timeout" -> Failure("empty")
      [] o.kind = "empty" -> Failure("timeout")
      [] OTHER -> o

\* C5: for each aggregator and each external call it makes, the fetch returns
\* the same record (and issues the same calls) when that call times out as
\* when it answers an empty result set, all other outcomes being equal; a
\* timeout never reaches the caller as an error.
C5_TimeoutLikeEmpty ==
    FetchDone =>
        \A c \in DOMAIN fetch.env :
            fetch.env[c].kind \in {"timeout", "empty"} =>
                LET other == Run(StartFetch(fetch.svc, fetch.loc,
                                            [fetch.env EXCEPT ![c] = Swap(@)]))
                IN  /\ ~fetch.ret.raised
                    /\ other.ret = fetch.ret
                    /\ other.log = fetch.log

\* get_parcelle returned the primary record although the building lookup
\* timed out
C5_Witness ==
    /\ FetchDone
    /\ fetch.svc = "cadastre"
    /\ fetch.env.gpu.kind = "timeout"
    /\ fetch.ret.value # None
    /\ Val(fetch.ret.value).source = SrcApicarto

\* get_stats has returned, having found transactions
StatsDone == FetchDone /\ fetch.svc = "dvf" /\ fetch.tx # << >>

\* the transactions left by the date filter
Considered == RecentTransactions(fetch.tx, fetch.months)

\* a transaction whose price per m2 is taken (a price, an area above 10 m2)
\* and lies within [500, 20000]
Surviving(t) ==
    /\ t.prix # None /\ Val(t.prix) # 0
    /\ t.surface # None /\ Val(t.surface) > MinSurface
    /\ Val(t.prix) >= PrixM2Min * Val(t.surface)
    /\ Val(t.prix) <= PrixM2Max * Val(t.surface)

Survivors == SelectSeq(Considered, Surviving)

SurvivorPrices == [i \in 1..Len(Survivors) |-> PrixM2(Survivors[i])]

\* C24: in get_stats only the transactions whose price per m2 lies in
\* [500, 20000] enter the statistics; the mean, the median, the standard
\* deviation and the count of an observed record are those of exactly the
\* surviving transactions, and when none survives the record returned is
\* the default one, not an observed one.
C24_StatsOverSurvivors ==
    StatsDone =>
        /\ ~fetch.ret.raised
        /\ fetch.ret.value # None
        /\ LET r == Val(fetch.ret.value)
               xs == SurvivorPrices
           IN  /\ r.source = SrcDvf =>
                     /\ xs # << >>
                     /\ r.nb_transactions = Len(xs)
                     /\ r.prix_m2_moyen = Some(Mean(xs))
                     /\ r.prix_m2_median = Some(Median(xs))
                     /\ r.ecart_type = Some(IF Len(xs) > 1 THEN StDev(xs) ELSE 0)
                     /\ \A i \in 1..Len(r.transactions_detail) :
                           /\ r.transactions_detail[i].prix_m2 >= PrixM2Min * 100
                           /\ r.transactions_detail[i].prix_m2 <= PrixM2Max * 100
               /\ xs = << >> =>
                     /\ r.source \in {SrcRegional, SrcNational}
                     /\ r.nb_transactions = 0

\* an observed record over one transaction, at 500 per m2, another one
\* above the band having been left out
C24_Witness ==
    /\ StatsDone
    /\ Val(fetch.ret.value).source = SrcDvf
    /\ SurvivorPrices = <<PrixM2Min * 100>>
    /\ \E i \in 1..Len(Considered) :
          /\ Considered[i].prix # None
          /\ Val(Considered[i].prix) > PrixM2Max * Val(Considered[i].surface)

\* transactions were found and none survives: the regional default
C24_WitnessNoneSurvives ==
    /\ StatsDone
    /\ Survivors = << >>
    /\ \A i \in 1..Len(fetch.tx) : ParseDate(fetch.tx[i].date).exc = None
    /\ Val(fetch.ret.value).source = SrcRegional

\* the day of a transaction (all dates parse)
DayOf(t) == ParseDate(t.date).val

\* s with t put before the first transaction of an earlier day
RECURSIVE InsertByDay(_, _)
InsertByDay(t, s) ==
    IF s = << >> THEN <<t>>
    ELSE IF DayOf(t) >= DayOf(s[1]) THEN <<t>> \o s
    ELSE <<s[1]>> \o InsertByDay(t, Tail(s))

\* the transactions, latest day first
RECURSIVE LatestFirst(_)
LatestFirst(s) == IF s = << >> THEN << >> ELSE InsertByDay(s[1], LatestFirst(Tail(s)))

\* no transaction found is inside the window, and every date parses
NoneInWindow ==
    /\ StatsDone
    /\ \A i \in 1..Len(fetch.tx) :
          /\ ParseDate(fetch.tx[i].date).exc = None
          /\ DayOf(fetch.tx[i]) < Today - fetch.months * 30

\* the prices per m2 of the survivors among the 20 transactions of the
\* latest days
LatestPrices ==
    LET kept == SelectSeq(Prefix(LatestFirst(fetch.tx), KeepLast), Surviving)
    IN  [i \in 1..Len(kept) |-> PrixM2(kept[i])]

\* C25: when no transaction found is inside the window, the statistics of
\* get_stats are those of the 20 transactions of the latest dates (of all
\* of them when they are fewer), whatever the order of the provider's list.
C25_LatestTwentyKept ==
    (NoneInWindow /\ LatestPrices # << >>) =>
        LET r == Val(fetch.ret.value)
        IN  /\ r.source = SrcDvf
            /\ r.nb_transactions = Len(LatestPrices)
            /\ r.prix_m2_moyen = Some(Mean(LatestPrices))
            /\ r.prix_m2_median = Some(Median(LatestPrices))

\* what the code does: the statistics are those of the first 20
\* transactions of the provider's list
C25_FirstTwentyKept ==
    (NoneInWindow /\ LatestPrices # << >>) =>
        LET r == Val(fetch.ret.value)
            kept == SelectSeq(Prefix(fetch.tx, KeepLast), Surviving)
            xs == [i \in 1..Len(kept) |-> PrixM2(kept[i])]
        IN  /\ r.source = SrcDvf
            /\ r.nb_transactions = Len(xs)
            /\ r.prix_m2_moyen = Some(Mean(xs))
            /\ r.prix_m2_median = Some(Median(xs))

\* 21 transactions before the window, the latest one last in the list
C25_WitnessLatestLast ==
    /\ NoneInWindow
    /\ Len(fetch.tx) = KeepLast + 1
    /\ DayOf(fetch.tx[KeepLast + 1]) > DayOf(fetch.tx[1])
    /\ Val(fetch.ret.value).nb_transactions = KeepLast

\* get_parcelle has returned a record
ParcelDone ==
    /\ FetchDone
    /\ fetch.svc = "cadastre"
    /\ ~fetch.ret.raised
    /\ fetch.ret.value # None

\* the provider gave the land area of the parcel returned
LandAreaGiven ==
    /\ fetch.env.apicarto.kind = "ok"
    /\ fetch.env.apicarto.body.contenance.present
    /\ fetch.env.apicarto.body.contenance.val # None
    /\ Val(fetch.ret.value).source = SrcApicarto

\* C26: in every record returned by get_parcelle, from the primary source
\* or the fallback, a numeric field whose value is not known (land area,
\* built area, year of construction) is None and never 0.
C26_UnknownIsAbsent ==
    ParcelDone =>
        LET r == Val(fetch.ret.value)
        IN  /\ ~LandAreaGiven => r.surface_terrain = None
            /\ r.surface_batie = None
            /\ r.annee_construction = None

\* what the code does: the built area and the year are None, the land area
\* is 0 in the fallback record and when the key contenance is missing
C26_UnknownLandIsZero ==
    ParcelDone =>
        LET r == Val(fetch.ret.value)
        IN  /\ r.surface_batie = None
            /\ r.annee_construction = None
            /\ r.source = SrcFallback => r.surface_terrain = Some(0)
            /\ (r.source = SrcApicarto /\ ~fetch.env.apicarto.body.contenance.present)
                  => r.surface_terrain = Some(0)
            /\ (r.source = SrcApicarto /\ fetch.env.apicarto.body.contenance.present)
                  => r.surface_terrain = fetch.env.apicarto.body.contenance.val

\* the external calls of the fetch so far, in order
CallsMade ==
    LET IsCall(e) == e.k = "call"
        calls == SelectSeq(fetch.log, IsCall)
    IN  [i \in 1..Len(calls) |-> calls[i].n]

\* the call did not give a non-empty result
CallFailed(call) == fetch.env[call].kind \in FailKinds

\* the tiers of an aggregator, and the enrichment call of get_parcelle
CallsAllowed == TierRank("default") + (IF fetch.svc = "cadastre" THEN 1 ELSE 0)

\* C27: within one fetch no tier is tried more than once and the tiers only
\* move forward, no call is issued twice, and there are at most as many
\* external calls as tiers (one more for the enrichment of the parcel); the
\* endpoint of a failed call may be called again by the next tier.
C27_ForwardOnly ==
    /\ TiersInOrder
    /\ Len(CallsMade) <= CallsAllowed
    /\ \A i, j \in 1..Len(CallsMade) : i < j => CallsMade[i] # CallsMade[j]

\* C27, as claimed: moreover no endpoint is called again after a call to it
\* failed.
C27_NoCallAfterFailure ==
    /\ C27_ForwardOnly
    /\ \A i, j \in 1..Len(CallsMade) :
          (i < j /\ CallFailed(CallsMade[i])) =>
              EndpointOf(CallsMade[j]) # EndpointOf(CallsMade[i])

\* get_stats after three calls: the commune lookup of _fetch_etalab timed
\* out and _get_commune_stats issued it again
C27_Witness ==
    /\ FetchDone
    /\ fetch.svc = "dvf"
    /\ CallsMade = <<"cquest", "geo_etalab", "geo_commune">>
    /\ fetch.env.geo_etalab.kind = "timeout"

\* get_stats has returned a record
StatsReturned ==
    /\ FetchDone
    /\ fetch.svc = "dvf"
    /\ ~fetch.ret.raised
    /\ fetch.ret.value # None

\* the engine warns that there is no transaction (estimation.py:401)
WarnsNoTransaction(dvf) ==
    LET w == GenerateWarnings(GetFallbackData(fetch.loc), dvf, GetFallbackAnalysis,
                              None)
    IN  \E i \in 1..Len(w) : w[i] = "aucune_transaction"

\* the engine takes the 10 points of the default tier off the score
\* (estimation.py:332-333): the score is lower than with an observed source
PenalisesDefault(dvf) ==
    LET Score(d) == ScoreBrut(d, GetFallbackAnalysis, GetFallbackData(fetch.loc),
                              None, FALSE).val
    IN  Score(dvf) < Score([dvf EXCEPT !.source = SrcDvf])

\* C28: every record returned by get_stats has a mean, a median and a
\* standard deviation that are not None, a transaction count >= 0 and at most
\* 10 detailed transactions; the count is 0 exactly when the source marks a
\* regional or national estimate and >= 1 exactly when it marks observed
\* transactions, so that the engine's zero-transaction warning and its
\* default-tier penalty occur together.
C28_CountMatchesSource ==
    StatsReturned =>
        LET r == Val(fetch.ret.value)
        IN  /\ r.prix_m2_moyen # None
            /\ r.prix_m2_median # None
            /\ r.ecart_type # None
            /\ r.nb_transactions >= 0
            /\ Len(r.transactions_detail) <= DetailMax
            /\ r.nb_transactions = 0 <=> r.source \in {SrcRegional, SrcNational}
            /\ r.nb_transactions >= 1 <=> r.source = SrcDvf
            /\ WarnsNoTransaction(r) <=> PenalisesDefault(r)

\* an observed record over 20 transactions, 10 of them detailed: no
\* warning and no penalty
C28_Witness ==
    /\ StatsReturned
    /\ Val(fetch.ret.value).source = SrcDvf
    /\ Val(fetch.ret.value).nb_transactions = KeepLast
    /\ Len(Val(fetch.ret.value).transactions_detail) = DetailMax
    /\ ~WarnsNoTransaction(Val(fetch.ret.value))
    /\ ~PenalisesDefault(Val(fetch.ret.value))

\* a regional estimate: the warning and the penalty
C28_WitnessDefault ==
    /\ StatsReturned
    /\ Val(fetch.ret.value).source = SrcRegional
    /\ WarnsNoTransaction(Val(fetch.ret.value))
    /\ PenalisesDefault(Val(fetch.ret.value))

-----------------------------------------------------------------------------
(* The vision analyzer *)

\* every assessment the analyzer has produced, the fusion included
Produced ==
    {vis.analyses[i] : i \in 1..Len(vis.analyses)}
        \cup (IF vis.merged = None THEN {} ELSE {Val(vis.merged)})

ConfidenceInRange(a) == 2000 <= a.score_confiance /\ a.score_confiance <= 9500

ConfidenceInRangeWithoutModel ==
    /\ \A a \in Produced : a.methode \in {"heuristic", "fallback"} => ConfidenceInRange(a)
    /\ (/\ vis.merged # None
        /\ \A i \in 1..Len(vis.analyses) : ConfidenceInRange(vis.analyses[i]))
          => ConfidenceInRange(Val(vis.merged))

\* the fixed fallback assessment, value by value
IsFixedFallback(a) ==
    /\ a.type_bien = "inconnu"
    /\ a.etat_exterieur = "correct"
    /\ a.coefficient_etat = 1000
    /\ a.nombre_etages_estime = 1
    /\ a.score_confiance = 3000
    /\ a.methode = "fallback"

\* a step of the last call of analyze raised: the decoding, the loading of
\* the pixels, or the inference of the model
StepRaised ==
    /\ vis.photo # None
    /\ \/ Val(vis.photo).kind # "ok"
       \/ UsesModel(vis) /\ vis.ml.raises

Assessments ==
    { vis.analyses[i] : i \in 1..Len(vis.analyses) }
        \cup (IF vis.merged = None THEN {} ELSE {Val(vis.merged)})

\* the coefficient is the mean of the coefficients of the assessments
\* merged, to the thousandth
IsMeanCoefficient(a) ==
    LET n == Len(vis.analyses)
        total == SeqSum([i \in 1..n |-> vis.analyses[i].coefficient_etat])
    IN  2 * Abs(n * a.coefficient_etat - total) <= n

\* C29, as claimed: in every assessment (heuristic, model, fallback or
\* merged) the condition coefficient is the one the STATES table binds to
\* the condition class of the assessment.
C29_CoefficientOfClass ==
    \A a \in Assessments : a.coefficient_etat = StateCoef(a.etat_exterieur)

\* C29: the condition coefficient of a heuristic or model assessment is the
\* one STATES binds to its class; the fallback assessment has the class
\* 'correct' and the coefficient 1.0; an assessment merged from several has
\* the mean of their coefficients, which lies within 0.05 of the
\* coefficient of its class unless the class is 'bon'.
C29_CoefficientByOrigin ==
    \A a \in Assessments :
        CASE a.methode = "fallback" ->
                a.etat_exterieur = "correct" /\ a.coefficient_etat = 1000
          [] a.methode = "fusion_multi_photos" ->
                /\ IsMeanCoefficient(a)
                /\ \/ a.etat_exterieur = "bon"
                   \/ Abs(a.coefficient_etat - StateCoef(a.etat_exterieur)) <= 50
          [] OTHER ->
                a.coefficient_etat = StateCoef(a.etat_exterieur)

\* two heuristic assessments merged, 'bon' (1.0) and 'travaux_legers'
\* (0.85): the class is 'correct' (0.95) and the coefficient 0.925
C29_Witness ==
    /\ vis.merged # None
    /\ Len(vis.analyses) = 2
    /\ \A i \in 1..2 : vis.analyses[i].methode = "heuristic"
    /\ Val(vis.merged).methode = "fusion_multi_photos"
    /\ Val(vis.merged).etat_exterieur = "correct"
    /\ Val(vis.merged).coefficient_etat = 925

\* the fallback assessment among the assessments of analyze
C29_WitnessFallback ==
    \E a \in Assessments : a.methode = "fallback"

-----------------------------------------------------------------------------
(* The estimation engine *)

EngineReturned == eng.pc = "done" /\ eng.out.exc = None

\* C7: in every result calculate returns, prix_bas <= prix_total_estime <=
\* prix_haut, on the rounded values of the result.
C7_PriceOrdered ==
    EngineReturned =>
        /\ Val(eng.out.val).prix_bas <= Val(eng.out.val).prix_total_estime
        /\ Val(eng.out.val).prix_total_estime <= Val(eng.out.val).prix_haut

\* a result with a positive price, whose three prices differ
C7_Witness ==
    /\ EngineReturned
    /\ 0 < Val(eng.out.val).prix_bas
    /\ Val(eng.out.val).prix_bas < Val(eng.out.val).prix_total_estime
    /\ Val(eng.out.val).prix_total_estime < Val(eng.out.val).prix_haut

\* C8: in every result calculate returns, the confidence lies in [15, 95]
\* and the margin of the price bounds, marge_erreur_pct / 100, in
\* [0.08, 0.30].
C8_ConfidenceAndMarginBounded ==
    EngineReturned =>
        /\ 150 <= Val(eng.out.val).confiance
        /\ Val(eng.out.val).confiance <= 950
        /\ 80 <= Val(eng.out.val).details_calcul.marge_erreur_pct
        /\ Val(eng.out.val).details_calcul.marge_erreur_pct <= 300

\* a result whose confidence comes from the clamp (the score computed lies
\* below 15), with the widest margin the rules give
C8_Witness ==
    /\ EngineReturned
    /\ CalculateConfidence_Unclamped(eng.dvf, eng.vision, eng.cadastre, eng.dpe,
                                     eng.multi_photo_boost).val < 15000
    /\ Val(eng.out.val).confiance = 150
    /\ Val(eng.out.val).details_calcul.marge_erreur_pct = 230

-----------------------------------------------------------------------------
(* The request handlers *)

\* the calls whose return a call of calculate must follow
Inputs(handler) ==
    (IF handler = "estimate_multi" THEN {"merge_analyses"} ELSE {})
        \cup {"analyze", "get_parcelle", "get_stats", "get_dpe"}

InLog(name, log) == \E i \in 1..Len(log) : log[i] = name

\* C6: in both handlers calculate is invoked at most once per request, only
\* after the vision assessment (merged, for several photos), the parcel
\* fetch, the market fetch and the energy fetch of the request have
\* returned, and never with a parcel or a market record that is None.
C6_CalculateOnceAfterAllInputs ==
    /\ Len(req.calculate_calls) <= 1
    /\ \A i \in 1..Len(req.calculate_calls) :
          LET call == req.calculate_calls[i]
          IN  /\ \A name \in Inputs(req.handler) : InLog(name, call.after)
              /\ call.vision # None
              /\ call.cadastre # None
              /\ call.dvf # None
              /\ call.dpe.returned

\* a multi-photo request in expert mode that was answered with an
\* estimation, calculate having run once on the merged assessment of two
\* photos and on the parcel merged with the manual data
C6_Witness ==
    /\ req.handler = "estimate_multi"
    /\ req.pc = "done"
    /\ Len(req.calculate_calls) = 1
    /\ req.response # None
    /\ Val(req.response).status = 200
    /\ Len(req.all_vision_results) = 2
    /\ InLog("merge_with_manual", req.returned)

\* the same for estimate_property
C6_WitnessSingle ==
    /\ req.handler = "estimate"
    /\ req.pc = "done"
    /\ Len(req.calculate_calls) = 1
    /\ Val(req.response).status = 200

\* the aggregator fetches a request has made
Fetches == {"get_parcelle", "get_stats", "get_dpe"}

Fetched == \E name \in Fetches : InLog(name, req.returned)

\* C21: on every entry point that passes coordinates to the aggregators
\* (POST /estimate, POST /estimate/multi, GET /cadastre, GET /dvf) a request
\* whose latitude is outside [-90, 90] or whose longitude is outside
\* [-180, 180] is rejected before any aggregator fetch is made.
C21_OutOfRangeNeverFetched ==
    (req.handler # "none" /\ ~InRange(req.loc)) => ~Fetched

\* the part that holds: POST /estimate answers 422 without any fetch
C21_SinglePhotoRejected ==
    (req.handler = "estimate" /\ ~InRange(req.loc)) =>
        /\ ~Fetched
        /\ req.returned = << >>
        /\ req.response = Some(Reject(422))

C21_SinglePhotoWitness ==
    /\ req.handler = "estimate"
    /\ ~InRange(req.loc)
    /\ req.pc = "done"

\* the multi-photo request is past its loop and kept no assessment
NoAssessment ==
    /\ req.pc \notin {"idle", "analyze"}
    /\ req.all_vision_results = << >>

\* C22: a multi-photo request with no image, with more than 10 images, or
\* of which no image gave an assessment, is answered 400 and makes no
\* aggregator fetch and no call of calculate; merge_analyses is only called
\* with 1 to 10 assessments.
C22_EmptySetsRejected ==
    req.handler = "estimate_multi" =>
        /\ (Len(req.images) = 0 \/ Len(req.images) > ImagesLimit \/ NoAssessment) =>
              /\ ~Fetched
              /\ ~InLog("merge_analyses", req.returned)
              /\ req.calculate_calls = << >>
              /\ req.pc = "done" => req.response = Some(Reject(400))
              /\ req.pc \in {"merge_analyses", "done"}
        /\ InLog("merge_analyses", req.returned) =>
              /\ Len(req.all_vision_results) >= 1
              /\ Len(req.all_vision_results) <= ImagesLimit

\* a request of one image that base64 cannot decode, answered 400
C22_Witness ==
    /\ req.handler = "estimate_multi"
    /\ Len(req.images) = 1
    /\ NoAssessment
    /\ req.pc = "done"
    /\ req.response = Some(Reject(400))

\* a request of eleven images, answered 400
C22_WitnessTooMany ==
    /\ req.handler = "estimate_multi"
    /\ Len(req.images) > ImagesLimit
    /\ req.pc = "done"
    /\ req.response = Some(Reject(400))

\* a request of ten images, all merged
C22_WitnessTen ==
    /\ req.handler = "estimate_multi"
    /\ InLog("merge_analyses", req.returned)
    /\ Len(req.all_vision_results) = ImagesLimit

-----------------------------------------------------------------------------
(* The manual overrides (SpecManual) *)

\* the overridable fields the manual data give with a value
Given ==
    { f \in ExpertFields \cap DOMAIN req.manual_data : req.manual_data[f] # None }

\* C23: merge_with_manual returns a new record in which every overridable
\* field that the manual data give with a value that is not None has the
\* manual value and is tagged manual, every other field of the fetched
\* record keeps its value, and the fetched record is left as it was.
C23_ManualOverrides ==
    req.handler = "merge_with_manual" =>
        LET cadastre_data == req.heap[req.cadastre_data]
            merged == req.heap[req.merged]
        IN  /\ req.merged # req.cadastre_data
            /\ cadastre_data = req.fetched
            /\ \A f \in Given :
                  /\ merged[f] = req.manual_data[f]
                  /\ f \in merged.champs_manuels
            /\ merged.champs_manuels \subseteq Given
            /\ \A f \in DOMAIN req.fetched \ Given : merged[f] = req.fetched[f]

\* a call whose manual data change the land area, give None for the built
\* area and name a field that cannot be overridden
C23_Witness ==
    /\ req.handler = "merge_with_manual"
    /\ "surface_terrain" \in Given
    /\ req.heap[req.merged].surface_terrain # req.fetched.surface_terrain
    /\ "surface_batie" \in DOMAIN req.manual_data \ Given
    /\ "commune" \in DOMAIN req.manual_data
    /\ req.manual_data["commune"] # None

-----------------------------------------------------------------------------
(* The fusion of assessments (SpecMerge) *)

Merged == vis.merged # None

Scores == [i \in 1..Len(vis.analyses) |-> vis.analyses[i].score_confiance]

AllAlike == \A i \in 1..Len(vis.analyses) : vis.analyses[i] = vis.analyses[1]

\* C11: merge_analyses of exactly one assessment returns that assessment,
\* every field of it unchanged, the confidence and the method tag included.
C11_SingleReturnedUnchanged ==
    (Merged /\ Len(vis.analyses) = 1) => Val(vis.merged) = vis.analyses[1]

\* one heuristic assessment was merged
C11_Witness ==
    /\ Merged
    /\ Len(vis.analyses) = 1
    /\ vis.analyses[1].methode = "heuristic"
    /\ Val(vis.merged).methode = "heuristic"

\* the merged confidence of n copies of the assessment a
OfCopies(a, n) ==
    MergeAnalyses(Repeat(a, n), CHOOSE order \in TypeOrders : TRUE).score_confiance

\* C12: for more than one assessment the merged confidence is
\* min(95, greatest confidence + 5 N); for N copies of one assessment of
\* confidence c in [20, 95], N in 1..10, one copy gives c, the merged
\* confidence never exceeds 95, and one more copy gives strictly more
\* whenever the value for N copies is below 95.
C12_ConfidenceBoost ==
    Merged =>
        LET N == Len(vis.analyses)
            now == Val(vis.merged).score_confiance
            c == vis.analyses[1].score_confiance
        IN  /\ N > 1 => now = Min2(9500, SeqMax(Scores) + 500 * N)
            /\ (AllAlike /\ 2000 <= c /\ c <= 9500 /\ N <= ImagesLimit) =>
                  /\ N = 1 => now = c
                  /\ now <= 9500
                  /\ now = OfCopies(vis.analyses[1], N)
                  /\ (N < ImagesLimit /\ now < 9500) =>
                        OfCopies(vis.analyses[1], N + 1) > now

\* nine copies of an assessment of confidence 30 were merged: 75, below the
\* ceiling, and a tenth copy gives 80
C12_Witness ==
    /\ Merged
    /\ AllAlike
    /\ Len(vis.analyses) = ImagesLimit - 1
    /\ vis.analyses[1].score_confiance = 3000
    /\ Val(vis.merged).score_confiance = 7500
    /\ OfCopies(vis.analyses[1], ImagesLimit) = 8000

\* the number of assessments of vis.analyses of the type t
Occurrences(t) ==
    Cardinality({i \in 1..Len(vis.analyses) : vis.analyses[i].type_bien = t})

\* the types no other type outnumbers
MostSeen ==
    {t \in PropertyTypes :
        /\ Occurrences(t) > 0
        /\ \A u \in PropertyTypes : Occurrences(u) <= Occurrences(t)}

FirstSeen(t) ==
    CHOOSE i \in 1..Len(vis.analyses) :
        /\ vis.analyses[i].type_bien = t
        /\ \A j \in 1..(i - 1) : vis.analyses[j].type_bien # t

\* C13: for more than one assessment the merged type is a type with the
\* highest number of occurrences, and among several such types it is the
\* one that appears first in the input.
C13_MajorityFirstSeen ==
    (Merged /\ Len(vis.analyses) > 1) =>
        /\ Val(vis.merged).type_bien \in MostSeen
        /\ \A t \in MostSeen : FirstSeen(Val(vis.merged).type_bien) <= FirstSeen(t)

\* the part of C13 that holds whatever the iteration order of the set
MergedTypeIsMostSeen ==
    (Merged /\ Len(vis.analyses) > 1) => Val(vis.merged).type_bien \in MostSeen

\* the distance of the coefficient of a state to the mean, times
\* 1000 * Len(vis.analyses)
Distance(etat) ==
    Abs(StateCoef(etat) * Len(vis.analyses)
        - SeqSum([i \in 1..Len(vis.analyses) |-> vis.analyses[i].coefficient_etat]))

StateSet == {StateKeys[i] : i \in 1..Len(StateKeys)}

\* C14: for more than one assessment the merged condition class is the
\* class of STATES whose coefficient is closest to the mean of the
\* coefficients, provided that distance is below 0.05, and "bon" when no
\* class is within 0.05 of the mean.
C14_ClosestState ==
    (Merged /\ Len(vis.analyses) > 1) =>
        LET within == {e \in StateSet : Distance(e) < 50 * Len(vis.analyses)}
            etat == Val(vis.merged).etat_exterieur
        IN  IF within = {} THEN etat = "bon"
            ELSE /\ etat \in within
                 /\ \A e \in within : Distance(etat) <= Distance(e)

-----------------------------------------------------------------------------
(* The rules of the valuation engine (SpecEngine) *)

Result == Val(eng.out.val)

Details == Result.details_calcul

\* a surface that the tests of _calculate_surface_habitable take as known:
\* given and above 0
Known(surface) == surface # None /\ Val(surface) > 0

\* the ratio and the default surface that the rule names for each type
RuleRatio(type_bien) ==
    CASE type_bien = "maison" -> 35
      [] type_bien = "appartement" -> 100
      [] type_bien = "immeuble" -> 60
      [] type_bien = "terrain" -> 0
      [] type_bien = "local_commercial" -> 50
      [] type_bien = "inconnu" -> 30

RuleDefault(type_bien) ==
    CASE type_bien = "maison" -> 100
      [] type_bien = "appartement" -> 70
      [] type_bien = "immeuble" -> 500
      [] type_bien = "terrain" -> 0
      [] type_bien = "local_commercial" -> 150
      [] type_bien = "inconnu" -> 80

\* the habitable surface of the three-branch rule, in hundredths of m2
RuleSurface(built, land, type_bien, floors) ==
    IF Known(built) THEN Val(built) * 85 * Max2(1, floors)
    ELSE IF Known(land)
         THEN IF type_bien = "maison"
              THEN RoundDiv(Val(land) * RuleRatio(type_bien) * floors * 8, 10)
              ELSE Val(land) * RuleRatio(type_bien)
    ELSE RuleDefault(type_bien) * 100

\* C15: the habitable surface of a result follows the three-branch rule:
\* built area * 0.85 * max(1, floors) when the built area is known, else
\* land area * ratio(type) * (floors * 0.8 for a house, else 1) when the land
\* area is known, else the default of the type; a land of 500 m2 with a
\* house of one floor and no built area gives 140 m2.
C15_SurfaceRule ==
    EngineReturned =>
        /\ Result.surface_habitable_estimee =
              RuleSurface(eng.cadastre.surface_batie, eng.cadastre.surface_terrain,
                          eng.vision.type_bien, eng.vision.nombre_etages_estime)
        /\ ( /\ eng.cadastre.surface_terrain = Some(500)
             /\ eng.cadastre.surface_batie = None
             /\ eng.vision.type_bien = "maison"
             /\ eng.vision.nombre_etages_estime = 1 )
           => Result.surface_habitable_estimee = 14000

\* the example of the rule: 500 m2 of land, a house of one floor, 140 m2
C15_Witness ==
    /\ EngineReturned
    /\ eng.cadastre.surface_terrain = Some(500)
    /\ eng.cadastre.surface_batie = None
    /\ eng.vision.type_bien = "maison"
    /\ eng.vision.nombre_etages_estime = 1
    /\ Result.surface_habitable_estimee = 14000

\* the product of the four coefficients that a result exposes, * 10^9
ExposedProduct ==
    Details.coefficient_etat * Details.coefficient_dpe
        * Details.coefficient_etages * Details.coefficient_saison

\* the rest of what C16 says of the coefficients: the adjusted price per m2
\* is the mean price of the market times the product of the four
\* coefficients (to the cent), the energy coefficient is 1.0 without an
\* energy record, and above 5 floors the floors coefficient is that of 5
\* floors (1.00)
CoefficientsApplied ==
    /\ LET exact == MulDivQR(ExposedProduct, Val(eng.dvf.prix_m2_moyen), CoefUnit)
       IN  Result.prix_m2_ajuste \in {exact.q, exact.q + 1}
    /\ eng.dpe = None => Details.coefficient_dpe = 100
    /\ eng.vision.nombre_etages_estime > 5 => Details.coefficient_etages = 100

\* C16 as stated: the exposed coefficient_total equals the product of the
\* four exposed coefficients, which is the factor applied to the mean price.
C16_TotalIsProduct ==
    EngineReturned =>
        /\ Details.coefficient_total * (CoefUnit \div 1000) = ExposedProduct
        /\ CoefficientsApplied

\* C16, amended: the exposed coefficient_total is the product of the four
\* exposed coefficients rounded to three decimals (it differs from the
\* product by at most 0.0005); the factor applied to the mean price of the
\* market is the product itself; the energy coefficient is 1.0 without an
\* energy record and the floors coefficient above 5 floors is that of 5.
C16_TotalIsRoundedProduct ==
    EngineReturned =>
        /\ Abs(Details.coefficient_total * (CoefUnit \div 1000) - ExposedProduct)
              <= (CoefUnit \div 1000) \div 2
        /\ CoefficientsApplied

\* a result for a building of ten floors and no energy record whose product
\* of coefficients has more than three decimals
C16_Witness ==
    /\ EngineReturned
    /\ eng.dpe = None
    /\ eng.vision.nombre_etages_estime = FloorCap
    /\ Details.coefficient_etages = 100
    /\ Details.coefficient_dpe = 100
    /\ ExposedProduct % (CoefUnit \div 1000) # 0

\* the score of C17 with the points it gives for the year of construction
ScoreWithYearWorth(points) ==
    40000
    + (CASE eng.dvf.nb_transactions >= 20 -> 20000
         [] eng.dvf.nb_transactions >= 10 -> 15000
         [] eng.dvf.nb_transactions >= 5 -> 10000
         [] eng.dvf.nb_transactions > 0 -> 5000
         [] OTHER -> 0)
    + (eng.vision.score_confiance - 5000) * 2
    + (IF Known(eng.cadastre.surface_terrain) THEN 5000 ELSE 0)
    + (IF TruthyNum(eng.cadastre.surface_batie) THEN 5000 ELSE 0)
    + (IF TruthyNum(eng.cadastre.annee_construction) THEN points ELSE 0)
    + (IF eng.dpe # None /\ Val(eng.dpe).classe_energie # None THEN 7000 ELSE 0)
    + (IF eng.multi_photo_boost THEN 5000 ELSE 0)
    - (IF eng.dvf.source[1] = "Estimation" THEN 10000 ELSE 0)
    - (IF eng.cadastre.source = SrcFallback THEN 10000 ELSE 0)

ScoreOfCall ==
    ScoreBrut(eng.dvf, eng.vision, eng.cadastre, eng.dpe, eng.multi_photo_boost).val

\* C17: the confidence score before the clamp is 40, plus 20/15/10/5 by
\* number of transactions, plus (vision confidence - 50) * 0.2, plus 5 for a
\* known land area, 5 for a known built area, 5 for a known year of
\* construction, 7 for a known energy class, 5 for several photos, minus 10
\* for a regional or default market record, minus 10 for a fallback parcel.
C17_ScoreAsClaimed ==
    EngineReturned => ScoreOfCall = ScoreWithYearWorth(5000)

\* what the code computes: the same sum with 3 for the year of construction
ScoreWithThreeForYear ==
    EngineReturned => ScoreOfCall = ScoreWithYearWorth(3000)

\* the margin of C18, in hundredths
RuleMargin ==
    LET m == 15
             + (IF eng.dvf.nb_transactions >= 20 THEN -3
                ELSE IF eng.dvf.nb_transactions >= 10 THEN -2
                ELSE IF eng.dvf.nb_transactions = 0 THEN 5 ELSE 0)
             + (IF eng.vision.score_confiance >= 8000 THEN -2
                ELSE IF eng.vision.score_confiance < 5000 THEN 3 ELSE 0)
             + (IF eng.dpe # None THEN -2 ELSE 0)
    IN  IF m < 8 THEN 8 ELSE IF m > 30 THEN 30 ELSE m

\* C18: the margin is 0.15, -0.03 from 20 transactions, -0.02 from 10,
\* +0.05 for none, -0.02 for a vision confidence of 80 or more, +0.03 below
\* 50, -0.02 with an energy record, clamped to [0.08, 0.30]; with no
\* transaction, a vision confidence of 50 and no energy record it is 0.20
\* and the bounds are the total * 0.80 and * 1.20 (in rounded euros).
C18_MarginRule ==
    EngineReturned =>
        /\ Details.marge_erreur_pct = RuleMargin * 10
        /\ ( /\ eng.dvf.nb_transactions = 0
             /\ eng.vision.score_confiance = 5000
             /\ eng.dpe = None )
           => /\ Details.marge_erreur_pct = 200
              /\ Abs(10 * Result.prix_bas - 8 * Result.prix_total_estime) <= 9
              /\ Abs(10 * Result.prix_haut - 12 * Result.prix_total_estime) <= 11

\* the example of C18, for a price above zero
C18_Witness ==
    /\ EngineReturned
    /\ eng.dvf.nb_transactions = 0
    /\ eng.vision.score_confiance = 5000
    /\ eng.dpe = None
    /\ Details.marge_erreur_pct = 200
    /\ Result.prix_total_estime > 0
    /\ Result.prix_bas < Result.prix_total_estime
    /\ Result.prix_total_estime < Result.prix_haut

ThermalWarning ==
    \E i \in 1..Len(Result.avertissements) :
        Result.avertissements[i] = "passoire_thermique"

ClassOfCall == IF eng.dpe = None THEN None ELSE Val(eng.dpe).classe_energie

\* C19: for an energy record of class G the energy coefficient applied is
\* between 0.82 and 0.85 and the warnings hold the warning on thermal
\* performance; the same warning is given for the class F and for no other
\* class.
C19_WorstClasses ==
    EngineReturned =>
        /\ ClassOfCall = Some("G") =>
              /\ 82 <= Details.coefficient_dpe
              /\ Details.coefficient_dpe <= 85
              /\ ThermalWarning
        /\ ThermalWarning <=> ClassOfCall \in {Some("F"), Some("G")}

\* a result for an energy record of class G
C19_Witness ==
    /\ EngineReturned
    /\ ClassOfCall = Some("G")
    /\ Details.coefficient_dpe = 82
    /\ ThermalWarning

-----------------------------------------------------------------------------
(* The engine between calls (SpecEngineCalls) *)

-----------------------------------------------------------------------------
(* The surface and the price of a request (SpecHandler) *)

\* the request was answered with an estimation
Answered ==
    /\ req.handler \in {"estimate", "estimate_multi"}
    /\ req.pc = "done"
    /\ req.response # None
    /\ Val(req.response).status = 200

\* an area that was given and is not above 0
NotPositive(surface) == surface # None /\ Val(surface) <= 0

\* C30: for every request answered through one of the two handlers,
\* whatever numbers the manual data give for the land and the built area,
\* the habitable surface and the total price are >= 0: a built area that is
\* not above 0 is not multiplied into the surface, which is then that of
\* the land rule, and a land area not above 0 leaves the default surface of
\* the type.
C30_NonNegativeSurfaceAndPrice ==
    Answered =>
        LET body == Val(Val(req.response).body)
            cadastre == Val(req.calculate_calls[1].cadastre)
            vision == Val(req.calculate_calls[1].vision)
        IN  /\ body.surface_habitable_estimee >= 0
            /\ body.prix_total_estime >= 0
            /\ body.prix_bas >= 0
            /\ NotPositive(cadastre.surface_batie) =>
                  body.surface_habitable_estimee =
                      RuleSurface(None, cadastre.surface_terrain, vision.type_bien,
                                  vision.nombre_etages_estime)
            /\ (NotPositive(cadastre.surface_terrain) /\ ~Known(cadastre.surface_batie)) =>
                  body.surface_habitable_estimee = RuleDefault(vision.type_bien) * 100

\* an expert request giving a built area of -50 m2 over a parcel of 500 m2:
\* the surface is that of the land rule
C30_Witness ==
    /\ Answered
    /\ InLog("merge_with_manual", req.returned)
    /\ Val(req.calculate_calls[1].cadastre).surface_batie = Some(-50)
    /\ Val(req.calculate_calls[1].cadastre).surface_terrain = Some(500)
    /\ Val(Val(req.response).body).surface_habitable_estimee > 0
    /\ Val(Val(req.response).body).prix_total_estime > 0

\* an expert request giving a land area of -50 m2: the default surface
C30_WitnessLand ==
    /\ Answered
    /\ Val(req.calculate_calls[1].cadastre).surface_terrain = Some(-50)
    /\ Val(Val(req.response).body).surface_habitable_estimee =
          RuleDefault(Val(req.calculate_calls[1].vision).type_bien) * 100

\* an expert request giving 0 for both areas
C30_WitnessZero ==
    /\ Answered
    /\ Val(req.calculate_calls[1].cadastre).surface_terrain = Some(0)
    /\ Val(req.calculate_calls[1].cadastre).surface_batie = Some(0)
    /\ "surface_batie" \in Val(req.calculate_calls[1].cadastre).champs_manuels

====
